---- MODULE Spec2Model ----
(***************************************************************************)
(* docker-map: dependency-aware action generation (policy/base.py) and     *)
(* parameter derivation (policy/base.py, policy/utils.py).                 *)
(*                                                                         *)
(* Ten specifications share the variables:                                 *)
(*   SpecActions  AbstractActionGenerator.get_actions walking a dependency *)
(*                path obtained from BasePolicy.get_dependencies /         *)
(*                get_dependents;                                          *)
(*   SpecPrepare  AttachedPreparationMixin.prepare_container;              *)
(*   SpecKwargs   successive calls of the BasePolicy.get_*_kwargs builders *)
(*                on one configuration and one override dict;              *)
(*   SpecUpdate   one update_kwargs call on drawn arguments;               *)
(*   SpecPorts    one get_port_bindings call on drawn port declarations    *)
(*                and interface tables;                                    *)
(*   SpecDerive   one builder call on varied maps, clients and             *)
(*                configurations;                                          *)
(*   SpecBinds    one get_host_binds or get_volumes call on drawn binds;   *)
(*   SpecClients  BasePolicy.get_clients calls on drawn client lists;      *)
(*   SpecMerge    successive ContainerConfiguration.merge calls on one     *)
(*                list attribute;                                          *)
(*   SpecGetClient  threads stepping through ClientConfiguration.get_client*)
(*                on one configuration object.                             *)
(***************************************************************************)
EXTENDS Integers, Sequences, FiniteSets, TLC

VARIABLES
    \* ---- get_actions ----
    deps,            \* forward dependency edges: container -> set of containers
    container_maps,  \* BasePolicy._maps: map name -> set of existing configurations
    req,             \* the arguments of the get_actions call
    pc,              \* position inside get_actions
    path,            \* the materialised dependency path
    idx,             \* index of the next path element
    calls,           \* generate_item_actions invocations so far, in order
    gens,            \* per invocation: items produced / items consumed by list()
    ret,             \* value returned by get_actions
    exc,             \* exception that left get_actions
    \* ---- prepare_container ----
    ppc,             \* position inside prepare_container
    engine,          \* engine calls made so far, in order
    fail,            \* the engine calls that raise in this run
    temp_id,         \* id returned by create_container
    pending,         \* exception raised inside the try block, if any
    pexc,            \* exception that left prepare_container
    include_host_config, \* use_host_config(client)
    \* ---- parameter builder ----
    kpc,             \* position of the builder scenario
    container_map,   \* the ContainerMap the builders are given
    client_config,   \* the ClientConfiguration the builders are given
    cfg,             \* the ContainerConfiguration object
    caller,          \* the caller-supplied override dict object
    cfg0,            \* snapshot of cfg before the first call
    caller0,         \* snapshot of caller before the first call
    hostcfg,         \* the include_host_config argument
    results,         \* builder called and its return value, per call so far
    \* ---- update_kwargs ----
    upc,             \* position of the update_kwargs call
    u_kwargs,        \* the kwargs argument before the call
    u_updates,       \* the updates arguments
    u_result,        \* kwargs after the call
    \* ---- get_clients ----
    clients,         \* BasePolicy._clients: client name -> ClientConfiguration
    \* ---- ContainerConfiguration.merge ----
    m_current,       \* the list attribute of the configuration (self._binds, ...)
    m_prev,          \* that list before the last merge
    m_update,        \* the update list of the last merge
    m_count,         \* merges made so far
    \* ---- ClientConfiguration.get_client ----
    g_pc,            \* per calling thread: position inside get_client
    g_local,         \* per calling thread: its local variable client
    g_client,        \* ClientConfiguration._client
    g_constructed,   \* invocations of client_constructor so far
    g_ret            \* per calling thread: the handle get_client returned

actionVars == <<deps, container_maps, req, pc, path, idx, calls, gens, ret, exc>>
prepareVars == <<ppc, engine, fail, temp_id, pending, pexc, include_host_config>>
kwargsVars == <<kpc, container_map, client_config, cfg, caller, cfg0, caller0, hostcfg, results,
                upc, u_kwargs, u_updates, u_result,
                clients, m_current, m_prev, m_update, m_count,
                g_pc, g_local, g_client, g_constructed, g_ret>>
libraryVars == <<clients, m_current, m_prev, m_update, m_count,
                 g_pc, g_local, g_client, g_constructed, g_ret>>
vars == <<actionVars, prepareVars, kwargsVars>>

\* ------------------------------------------------------------------------
\* Bounds
\* ------------------------------------------------------------------------
NumContainers == 3
NumMaps == 2
MaxResults == 2
MaxLen == 2

\* ------------------------------------------------------------------------
\* Generic helpers
\* ------------------------------------------------------------------------
None == "None"

Range(s) == {s[i] : i \in 1..Len(s)}

\* the sequences over S of length up to n
Seqs(S, n) == UNION {[1..k -> S] : k \in 0..n}

\* reversed(seq)
Reverse(s) == [i \in 1..Len(s) |-> s[Len(s) + 1 - i]]

RECURSIVE SetToSeq(_)
\* ascending enumeration of a finite set of integers
SetToSeq(S) ==
    IF S = {} THEN <<>>
    ELSE LET m == CHOOSE x \in S : \A y \in S : x <= y
         IN <<m>> \o SetToSeq(S \ {m})

\* ------------------------------------------------------------------------
\* Python values: None, text, int, list, tuple, dict (a function from keys to
\* values), a callable returning a value, a late-resolved value, and a
\* reference to a list object that is shared with its owner
\* ------------------------------------------------------------------------
NoneV == [t |-> "none", v |-> <<>>]
Str(s) == [t |-> "str", v |-> s]
Num(n) == [t |-> "int", v |-> n]
List(s) == [t |-> "list", v |-> s]
Tuple(s) == [t |-> "tuple", v |-> s]
Dict(f) == [t |-> "dict", v |-> f]
Callable(x) == [t |-> "callable", v |-> x]
Lazy(x) == [t |-> "lazy", v |-> x]
Ref(a) == [t |-> "ref", v |-> a]

\* Python truth value of an object
Truthy(x) ==
    CASE x.t = "none" -> FALSE
      [] x.t = "str" -> x.v # ""
      [] x.t = "int" -> x.v # 0
      [] x.t = "bool" -> x.v
      [] x.t = "notset" -> FALSE
      [] x.t \in {"list", "tuple", "dict"} -> x.v # <<>>
      [] OTHER -> TRUE

\* ------------------------------------------------------------------------
\* Maps, configurations and the dependency graph
\* ------------------------------------------------------------------------
Containers == 1..NumContainers
Maps == 1..NumMaps

\* the map a container configuration is declared on
MapOf(c) == ((c - 1) % NumMaps) + 1

\* the instance part of the (map, container, instance) tuple under which the
\* resolver reports configuration c
PathInstance(c) == IF c % 3 = 0 THEN "i1" ELSE None

Item(c) == <<MapOf(c), c, PathInstance(c)>>

\* ContainerConfiguration.instances of configuration c
ConfigInstances(c) == IF c % 2 = 0 THEN <<Str("i1"), Str("i2")>> ELSE <<>>

RECURSIVE Reach(_, _)
Reach(g, S) ==
    LET S2 == S \cup UNION {g[x] : x \in S}
    IN IF S2 = S THEN S ELSE Reach(g, S2)

\* everything c reaches over one or more edges of g
Transitive(g, c) == Reach(g, g[c])

Acyclic(g) == \A c \in DOMAIN g : c \notin Transitive(g, c)

\* ContainerDependencyResolver.update_backward: the edge transpose
Backward(g) == [c \in DOMAIN g |-> {d \in DOMAIN g : c \in g[d]}]

RECURSIVE Resolve(_, _, _)
\* Depth-first resolution of the parents in `todo`: each parent is placed
\* after everything it depends on, and is placed once.
Resolve(g, todo, acc) ==
    IF todo = <<>> THEN acc
    ELSE LET p == Head(todo)
         IN IF p \in Range(acc) THEN Resolve(g, Tail(todo), acc)
            ELSE Resolve(g, Tail(todo), Append(Resolve(g, SetToSeq(g[p]), acc), p))

\* ContainerDependencyResolver.get_container_dependencies: every transitive
\* dependency of (map_name, container); the reverse of the returned sequence
\* is in dependencies-first order.  A key the graph does not hold has none.
get_container_dependencies(g, map_name, container) ==
    IF container \in DOMAIN g /\ MapOf(container) = map_name
    THEN LET order == Resolve(g, SetToSeq(g[container]), <<>>)
         IN Reverse([i \in 1..Len(order) |-> Item(order[i])])
    ELSE <<>>

\* BasePolicy._f_resolver / _r_resolver, built in __init__
f_resolver == deps
r_resolver == Backward(deps)

get_dependencies_unreversed(map_name, container) ==
    get_container_dependencies(f_resolver, map_name, container)

\* BasePolicy.get_dependencies
get_dependencies(map_name, container) ==
    Reverse(get_container_dependencies(f_resolver, map_name, container))

get_dependents_unreversed(map_name, container) ==
    get_container_dependencies(r_resolver, map_name, container)

\* BasePolicy.get_dependents
get_dependents(map_name, container) ==
    Reverse(get_container_dependencies(r_resolver, map_name, container))

\* ForwardActionGeneratorMixin / ReverseActionGeneratorMixin
get_dependency_path(mode, map_name, container) ==
    IF mode = "forward" THEN get_dependencies(map_name, container)
    ELSE get_dependents(map_name, container)

\* ------------------------------------------------------------------------
\* AbstractActionGenerator.get_actions
\* ------------------------------------------------------------------------
ACTION_DEPENDENCY_FLAG == 1

NoKwargs == {}

\* the instance of a path tuple as a Python object
InstanceValue(i) == IF i = None THEN NoneV ELSE Str(i)

\* get_actions._gen_actions up to the call of generate_item_actions: the lookup
\* of map and configuration and the arguments generate_item_actions receives
gen_actions(c_map_name, c_container, c_instance, c_flags, c_kwargs) ==
    IF c_map_name \notin DOMAIN container_maps
       \/ c_container \notin container_maps[c_map_name]
    THEN [exc |-> "KeyError", call |-> <<>>]
    ELSE [exc |-> "none",
          call |-> [map_name |-> req.map_name,
                    c_map |-> c_map_name,
                    container_name |-> c_container,
                    instances |-> IF Truthy(c_instance) THEN <<c_instance>>
                                  ELSE IF ConfigInstances(c_container) # <<>>
                                       THEN ConfigInstances(c_container)
                                       ELSE <<NoneV>>,
                    flags |-> c_flags,
                    kwargs |-> c_kwargs]]

dependency_item_with_kwargs(d) ==
    gen_actions(d[1], d[2], InstanceValue(d[3]), ACTION_DEPENDENCY_FLAG, req.kwargs)

\* _gen_actions(*d, c_flags=ACTION_DEPENDENCY_FLAG)
dependency_item(d) ==
    gen_actions(d[1], d[2], InstanceValue(d[3]), ACTION_DEPENDENCY_FLAG, NoKwargs)

\* _gen_actions(map_name, container, instances, c_flags=0, **kwargs)
target_item ==
    gen_actions(req.map_name, req.container, req.instances, 0, req.kwargs)

\* What an implementation of generate_item_actions may do with one item:
\* raise an engine failure, return None, or return a generator of n results
\* (up to MaxResults for the target; the results of a dependency are thrown
\* away, so one is enough there).
ItemOutcomes(c_flags) ==
    {[kind |-> "raise", n |-> 0], [kind |-> "none", n |-> 0]}
    \cup {[kind |-> "gen", n |-> k] :
            k \in 0..(IF c_flags = 0 THEN MaxResults ELSE 1)}

\* the j-th (client name, result) pair the item action of invocation i yields
ResultOf(i, j) == <<i, j>>

\* list(generator or ()): runs the generator to its end
materialize(i, out) ==
    [kind |-> out.kind,
     produced |-> out.n,
     consumed |-> out.n,
     items |-> [j \in 1..out.n |-> ResultOf(i, j)]]

loop_continues_after_raise == pc \in {"deps", "raised"} /\ idx <= Len(path)

\* for d in dependency_path: the loop has another element to process
loop_continues == pc = "deps" /\ idx <= Len(path)

RECURSIVE Flatten(_)
Flatten(g) == IF g = <<>> THEN <<>> ELSE Head(g).items \o Flatten(Tail(g))

get_actions_result_all(g) == Flatten(g)

\* the list get_actions returns: the materialised item action of the target,
\* which is the last one run
get_actions_result(g) == g[Len(g)].items

\* dependency_path = self.get_dependency_path(map_name, container)
ComputePath ==
    /\ pc = "start"
    /\ path' = get_dependency_path(req.mode, req.map_name, req.container)
    /\ idx' = 1
    /\ pc' = "deps"
    /\ UNCHANGED <<deps, container_maps, req, calls, gens, ret, exc>>
    /\ UNCHANGED <<prepareVars, kwargsVars>>

\* list(_gen_actions(*d, c_flags=ACTION_DEPENDENCY_FLAG) or ()) for one d
DependencyItem ==
    /\ loop_continues
    /\ LET r == dependency_item(path[idx])
       IN IF r.exc # "none"
          THEN /\ exc' = r.exc
               /\ pc' = "raised"
               /\ UNCHANGED <<calls, gens, idx>>
          ELSE \E out \in ItemOutcomes(r.call.flags) :
                  /\ calls' = Append(calls, r.call)
                  /\ IF out.kind = "raise"
                     THEN /\ exc' = "EngineError"
                          /\ pc' = "raised"
                          /\ UNCHANGED <<gens, idx>>
                     ELSE /\ gens' = Append(gens, materialize(Len(calls) + 1, out))
                          /\ idx' = idx + 1
                          /\ UNCHANGED <<exc, pc>>
    /\ UNCHANGED <<deps, container_maps, req, path, ret>>
    /\ UNCHANGED <<prepareVars, kwargsVars>>

\* return list(_gen_actions(map_name, container, instances, c_flags=0, **kwargs) or ())
TargetItem ==
    /\ pc = "deps"
    /\ idx > Len(path)
    /\ LET r == target_item
       IN IF r.exc # "none"
          THEN /\ exc' = r.exc
               /\ pc' = "raised"
               /\ UNCHANGED <<calls, gens, ret>>
          ELSE \E out \in ItemOutcomes(r.call.flags) :
                  /\ calls' = Append(calls, r.call)
                  /\ IF out.kind = "raise"
                     THEN /\ exc' = "EngineError"
                          /\ pc' = "raised"
                          /\ UNCHANGED <<gens, ret>>
                     ELSE /\ gens' = Append(gens, materialize(Len(calls) + 1, out))
                          /\ ret' = List(get_actions_result(gens'))
                          /\ pc' = "done"
                          /\ UNCHANGED exc
    /\ UNCHANGED <<deps, container_maps, req, path, idx>>
    /\ UNCHANGED <<prepareVars, kwargsVars>>

\* ------------------------------------------------------------------------
\* AttachedPreparationMixin.prepare_container
\* ------------------------------------------------------------------------
volume_container == "main.app_server_socket"

\* ids the engine may give the temporary container
TempIds == {"t1", "t2"}

\* the calls of prepare_container that can raise
PrepareOps ==
    {"wait_volume", "create_kwargs", "ensure_image", "create_container",
     "start", "wait_temp", "remove_container"}

Raises(op) == op \in fail

\* one engine call: the operation, the container it names, and whether the
\* host configuration travels with it
EngineCall(op, container, hc) == [op |-> op, container |-> container, hc |-> hc]

no_finally == "raised"

\* try: ... finally: an exception of the try block goes through the finally
\* clause before it leaves the function
on_try_exception == "finally"

\* client.wait(volume_container, timeout=client_config.get('wait_timeout'))
WaitVolume ==
    /\ ppc = "wait_volume"
    /\ engine' = Append(engine, EngineCall("wait", volume_container, FALSE))
    /\ IF Raises("wait_volume")
       THEN ppc' = "raised" /\ pexc' = "wait_volume"
       ELSE ppc' = "create" /\ UNCHANGED pexc
    /\ UNCHANGED <<fail, temp_id, pending, include_host_config>>
    /\ UNCHANGED <<actionVars, kwargsVars>>

\* apc_kwargs = ...get_attached_preparation_create_kwargs(...);
\* images.ensure_image(apc_kwargs['image']);
\* temp_container = client.create_container(**apc_kwargs); temp_id = temp_container['Id']
CreateTemp ==
    /\ ppc = "create"
    /\ IF Raises("create_kwargs")
       THEN /\ ppc' = "raised" /\ pexc' = "create_kwargs"
            /\ UNCHANGED <<engine, temp_id>>
       ELSE IF Raises("ensure_image")
       THEN /\ ppc' = "raised" /\ pexc' = "ensure_image"
            /\ UNCHANGED <<engine, temp_id>>
       ELSE /\ engine' = Append(engine, EngineCall("create_container", None, include_host_config))
            /\ IF Raises("create_container")
               THEN ppc' = "raised" /\ pexc' = "create_container" /\ UNCHANGED temp_id
               ELSE /\ \E id \in TempIds : temp_id' = id
                    /\ ppc' = "start"
                    /\ UNCHANGED pexc
    /\ UNCHANGED <<fail, pending, include_host_config>>
    /\ UNCHANGED <<actionVars, kwargsVars>>

\* aps_kwargs = dict(container=temp_id) or the host-config kwargs with
\* container=temp_id; client.start(**aps_kwargs)
StartTemp ==
    /\ ppc = "start"
    /\ engine' = Append(engine, EngineCall("start", temp_id, ~include_host_config))
    /\ IF Raises("start")
       THEN ppc' = on_try_exception /\ pending' = "start"
       ELSE ppc' = "wait_temp" /\ UNCHANGED pending
    /\ pexc' = IF ppc' = "raised" THEN pending' ELSE pexc
    /\ UNCHANGED <<fail, temp_id, include_host_config>>
    /\ UNCHANGED <<actionVars, kwargsVars>>

\* client.wait(temp_id, timeout=client_config.get('wait_timeout'))
WaitTemp ==
    /\ ppc = "wait_temp"
    /\ engine' = Append(engine, EngineCall("wait", temp_id, FALSE))
    /\ IF Raises("wait_temp")
       THEN ppc' = on_try_exception /\ pending' = "wait_temp"
       ELSE ppc' = "finally" /\ UNCHANGED pending
    /\ pexc' = IF ppc' = "raised" THEN pending' ELSE pexc
    /\ UNCHANGED <<fail, temp_id, include_host_config>>
    /\ UNCHANGED <<actionVars, kwargsVars>>

\* finally: client.remove_container(temp_id); an exception raised here
\* replaces the one the try block raised
RemoveTemp ==
    /\ ppc = "finally"
    /\ engine' = Append(engine, EngineCall("remove_container", temp_id, FALSE))
    /\ IF Raises("remove_container")
       THEN ppc' = "raised" /\ pexc' = "remove_container"
       ELSE IF pending # "none"
       THEN ppc' = "raised" /\ pexc' = pending
       ELSE ppc' = "done" /\ UNCHANGED pexc
    /\ UNCHANGED <<fail, temp_id, pending, include_host_config>>
    /\ UNCHANGED <<actionVars, kwargsVars>>

\* ------------------------------------------------------------------------
\* update_kwargs and its helpers (policy/utils.py)
\* ------------------------------------------------------------------------
Bool(b) == [t |-> "bool", v |-> b]
NotSet == [t |-> "notset", v |-> <<>>]

\* functional.resolve_value: a late-resolved value gives the value it wraps,
\* anything else is returned as it is
resolve_value(x) == IF x.t = "lazy" THEN x.v ELSE x

\* dict.get(key), d[key] = x, d without key, d.update(u) on dict contents
Get(d, key) == IF key \in DOMAIN d THEN d[key] ELSE NoneV
Put(d, key, x) == [j \in DOMAIN d \cup {key} |-> IF j = key THEN x ELSE d[j]]
Pop(d, key) == [j \in DOMAIN d \ {key} |-> d[j]]
DictUpdate(d, u) == [j \in DOMAIN d \cup DOMAIN u |-> IF j \in DOMAIN u THEN u[j] ELSE d[j]]

\* x == y on two values: of the same type and equal
Eq(x, y) == x.t = y.t /\ x.v = y.v

\* a or b
PyOr(a, b) == IF Truthy(a) THEN a ELSE b

\* k in s, for two texts
IsSub(k, s) ==
    \E i \in 1..(Len(s) + 1) :
        i + Len(k) - 1 <= Len(s) /\ SubSeq(s, i, i + Len(k) - 1) = k

\* key in ('command' or 'entrypoint')
is_overwrite_key(key) == IsSub(key, PyOr(Str("command"), Str("entrypoint")).v)

\* The object a kwargs entry stands for: the list a reference points to, or
\* the entry itself.
Deref(heap, x) == IF x.t = "ref" THEN heap[x.v] ELSE x

none_is_stored(u_item) == FALSE

\* if u_item is None: continue
none_is_skipped(u_item) == u_item.t = "none"

\* One iteration of the inner loop of update_kwargs.  st.kwargs is the dict
\* being updated; st.heap holds the list objects that entries of it share
\* with their owner, which list.extend changes in place.
update_item(st, key, val) ==
    LET u_item == resolve_value(val)
        kw_entry == Get(st.kwargs, key)
        kw_item == Deref(st.heap, kw_entry)
    IN  IF none_is_skipped(u_item) THEN st
        ELSE IF is_overwrite_key(key)
        THEN [st EXCEPT !.kwargs = Put(@, key, u_item)]
        ELSE IF u_item.t \in {"tuple", "list"}
        THEN LET u_list == [i \in 1..Len(u_item.v) |-> resolve_value(u_item.v[i])]
             IN  IF kw_item.t = "list"
                 THEN IF kw_entry.t = "ref"
                      THEN [st EXCEPT !.heap[kw_entry.v] = List(kw_item.v \o u_list)]
                      ELSE [st EXCEPT !.kwargs = Put(@, key, List(kw_item.v \o u_list))]
                 ELSE IF kw_item.t = "tuple"
                 THEN [st EXCEPT !.kwargs = Put(@, key, List(kw_item.v \o u_list))]
                 ELSE [st EXCEPT !.kwargs = Put(@, key, List(u_list))]
        ELSE IF u_item.t = "dict"
        THEN LET u_dict == [u_k \in DOMAIN u_item.v |-> resolve_value(u_item.v[u_k])]
             IN  IF kw_item.t = "dict"
                 THEN [st EXCEPT !.kwargs = Put(@, key, Dict(DictUpdate(kw_item.v, u_dict)))]
                 ELSE [st EXCEPT !.kwargs = Put(@, key, Dict(u_dict))]
        ELSE [st EXCEPT !.kwargs = Put(@, key, u_item)]

RECURSIVE update_items(_, _, _)
\* for key, val in six.iteritems(update)
update_items(st, update, keys) ==
    IF keys = {} THEN st
    ELSE LET key == CHOOSE k \in keys : TRUE
         IN  update_items(update_item(st, key, update[key]), update, keys \ {key})

RECURSIVE update_kwargs(_, _)
\* update_kwargs(kwargs, *updates)
update_kwargs(st, updates) ==
    IF updates = <<>> THEN st
    ELSE LET update == Head(updates)
         IN  update_kwargs(IF ~Truthy(update) THEN st
                           ELSE update_items(st, update.v, DOMAIN update.v),
                           Tail(updates))

NoHeap == <<>>

\* update_kwargs on a dict none of whose values is shared
update_kwargs_plain(kwargs, updates) ==
    update_kwargs([kwargs |-> kwargs, heap |-> NoHeap], updates).kwargs

init_options(options) ==
    IF Truthy(options)
    THEN IF options.t = "callable" THEN options.v ELSE options
    ELSE Dict(<<>>)

\* text before the first ':' (unicode.partition(':')[0])
BeforeColon(s) ==
    LET at == {i \in 1..Len(s) : SubSeq(s, i, i) = ":"}
    IN  IF at = {} THEN s
        ELSE SubSeq(s, 1, (CHOOSE i \in at : \A j \in at : i <= j) - 1)

extract_user(user_value) ==
    LET user == resolve_value(user_value)
    IN  IF ~Truthy(user) /\ ~Eq(user, Num(0)) /\ ~Eq(user, Str("0")) THEN NoneV
        ELSE IF user.t = "tuple" THEN user.v[1]
        ELSE IF user.t = "int" THEN Str(ToString(user.v))
        ELSE Str(BeforeColon(user.v))

RECURSIVE environment_items(_, _)
\* "{0}={1}".format(k, v) for every item of the dict
environment_items(val_dict, keys) ==
    IF keys = {} THEN <<>>
    ELSE LET k == CHOOSE x \in keys : TRUE
         IN  <<Str(k \o "=" \o val_dict[k])>> \o environment_items(val_dict, keys \ {k})

\* A dict gives a new list; a list is returned itself, the object the
\* configuration holds.
get_environment(container_config) ==
    LET val_dict == container_config.environment
    IN  IF val_dict.t = "dict" THEN List(environment_items(val_dict.v, DOMAIN val_dict.v))
        ELSE IF val_dict.t = "list" THEN Ref("environment")
        ELSE List(<<>>)

\* ------------------------------------------------------------------------
\* The builders of BasePolicy (policy/base.py), on one sample map, client
\* and configuration
\* ------------------------------------------------------------------------
sample_map ==
    [name |-> "main", repository |-> Str("registry.example.com"),
     set_hostname |-> TRUE, default_domain |-> NoneV,
     use_attached_parent_name |-> FALSE,
     volumes |-> [web_log |-> Str("/var/log/nginx"), web_config |-> Str("/etc/nginx")],
     host |-> [root |-> Str("/var/lib/site"), paths |-> [web_config |-> Str("config/nginx")]]]
config_name == "web_server"
client_name == "__default__"
sample_client_config == [stop_timeout |-> Num(5), interfaces |-> Dict(<<>>)]
alias == "web_log"
base_image == "tianon/true"
core_image == "busybox"

get_default_client_name == "__default__"

cname(map_name, container, instance) ==
    IF Truthy(instance) THEN map_name \o "." \o container \o "." \o instance.v
    ELSE map_name \o "." \o container

aname(map_name, attached_name, parent_name) ==
    IF Truthy(parent_name) THEN map_name \o "." \o parent_name.v \o "." \o attached_name
    ELSE map_name \o "." \o attached_name

iname(c_map, image) ==
    IF IsSub("/", image)
    THEN IF SubSeq(image, 1, 1) = "/" THEN SubSeq(image, 2, Len(image)) ELSE image
    ELSE LET repository == resolve_value(c_map.repository)
         IN  IF Truthy(repository) THEN repository.v \o "/" \o image ELSE image

get_hostname(c_client_name, container_name) ==
    IF c_client_name = get_default_client_name THEN container_name
    ELSE container_name \o "-" \o c_client_name

get_domainname(c_map, c_client_config) ==
    resolve_value(IF "domainname" \in DOMAIN c_client_config
                  THEN c_client_config.domainname ELSE c_map.default_domain)

\* input.is_path: a text that starts with '/' or './'
is_path(x) ==
    /\ x.t = "str"
    /\ \/ Len(x.v) >= 1 /\ SubSeq(x.v, 1, 1) = "/"
       \/ Len(x.v) >= 2 /\ SubSeq(x.v, 1, 2) = "./"

\* config.get_host_path(root, path, instance)
get_host_path(root, h_path, instance) ==
    LET r_val == resolve_value(h_path)
        r_path == IF r_val.t = "dict"
                  THEN resolve_value(Get(r_val.v, IF Truthy(instance) THEN instance.v ELSE "default"))
                  ELSE r_val
        r_root == resolve_value(root)
    IN  IF Truthy(r_path) /\ Truthy(r_root) /\ SubSeq(r_path.v, 1, 1) # "/"
        THEN Str(r_root.v \o "/" \o r_path.v)
        ELSE r_path

\* HostVolumeConfiguration.get(item, instance)
host_get(host, item, instance) == get_host_path(host.root, Get(host.paths, item), instance)

\* get_shared_volume_path: the (container path, host path) pair, or the
\* exception raised
get_shared_volume_path(c_map, volume, instance) ==
    IF volume.t = "tuple"
    THEN IF Len(volume.v) = 2 /\ is_path(resolve_value(volume.v[1]))
         THEN [exc |-> "none", c_path |-> resolve_value(volume.v[1]),
               h_path |-> get_host_path(c_map.host.root, volume.v[2], instance)]
         ELSE [exc |-> "ValueError", c_path |-> NoneV, h_path |-> NoneV]
    ELSE LET c_path == resolve_value(Get(c_map.volumes, volume.v))
             h_path == host_get(c_map.host, volume.v, instance)
         IN  IF Truthy(c_path) THEN [exc |-> "none", c_path |-> c_path, h_path |-> h_path]
             ELSE [exc |-> "KeyError", c_path |-> NoneV, h_path |-> NoneV]

\* _volume_path(vol) of get_volumes
volume_path(c_map, vol) ==
    IF vol.t = "tuple" /\ Len(vol.v) = 2
    THEN [exc |-> "none", v_path |-> resolve_value(vol.v[1])]
    ELSE LET v_path == IF vol.t = "str" THEN resolve_value(Get(c_map.volumes, vol.v)) ELSE NoneV
         IN  IF Truthy(v_path) THEN [exc |-> "none", v_path |-> v_path]
             ELSE [exc |-> "KeyError", v_path |-> NoneV]

\* The outcome of get_volumes: the list it returns, or the exception of the
\* first bind that cannot be resolved
get_volumes(c_map, config) ==
    LET paths == [i \in 1..Len(config.binds) |-> volume_path(c_map, config.binds[i].volume)]
        failed == {i \in 1..Len(paths) : paths[i].exc # "none"}
    IN  IF failed # {}
        THEN [exc |-> paths[CHOOSE i \in failed : \A j \in failed : i <= j].exc, volumes |-> <<>>]
        ELSE [exc |-> "none",
              volumes |-> [i \in 1..Len(config.shares) |-> resolve_value(config.shares[i])]
                          \o [i \in 1..Len(paths) |-> paths[i].v_path]]

\* the dict key a host path makes: the path, or None
HostPathKey(h_path) == IF h_path.t = "none" THEN None ELSE h_path.v

RECURSIVE host_binds_loop(_, _, _, _)
\* for shared_volume in config.binds, from the given entries on
host_binds_loop(c_map, binds, instance, host_binds) ==
    IF binds = <<>> THEN [exc |-> "none", host_binds |-> host_binds]
    ELSE LET shared_volume == Head(binds)
             resolved == get_shared_volume_path(c_map, shared_volume.volume, instance)
         IN  IF resolved.exc # "none" THEN [exc |-> resolved.exc, host_binds |-> host_binds]
             ELSE host_binds_loop(c_map, Tail(binds), instance,
                                  Put(host_binds, HostPathKey(resolved.h_path),
                                      Dict([bind |-> resolved.c_path,
                                            ro |-> Bool(shared_volume.readonly)])))

\* The outcome of get_host_binds: the dict it returns, or the exception
get_host_binds(c_map, config, instance) == host_binds_loop(c_map, config.binds, instance, <<>>)

port_only(bind_addr, bind_port) == bind_port

\* (bind_addr, bind_port)
address_and_port(bind_addr, bind_port) == Tuple(<<bind_addr, bind_port>>)

RECURSIVE port_bindings_loop(_, _, _)
\* for port_binding in container_config.exposes: the loop from the given
\* entry on, with the dict filled so far.  exc is the exception that ends it.
port_bindings_loop(exposes, c_client_config, port_bindings) ==
    IF exposes = <<>> THEN [exc |-> "none", port_bindings |-> port_bindings]
    ELSE LET port_binding == Head(exposes)
             exposed_port == resolve_value(port_binding.exposed_port)
             bind_port == resolve_value(port_binding.host_port)
             interface == resolve_value(port_binding.interface)
             bind_addr == resolve_value(Get(c_client_config.interfaces.v, interface.v))
         IN  IF Truthy(interface) /\ Truthy(bind_port)
             THEN IF ~Truthy(bind_addr)
                  THEN [exc |-> "ValueError", port_bindings |-> port_bindings]
                  ELSE port_bindings_loop(Tail(exposes), c_client_config,
                                          Put(port_bindings, exposed_port.v,
                                              address_and_port(bind_addr, bind_port)))
             ELSE IF Truthy(bind_port)
             THEN port_bindings_loop(Tail(exposes), c_client_config,
                                     Put(port_bindings, exposed_port.v, bind_port))
             ELSE port_bindings_loop(Tail(exposes), c_client_config, port_bindings)

\* The outcome of get_port_bindings: the dict it returns, or the ValueError
\* it raises.
get_port_bindings(container_config, c_client_config) ==
    port_bindings_loop(container_config.exposes, c_client_config, <<>>)

\* docker.utils.create_host_config(**hc_kwargs): the HostConfig structure
\* built from the keyword arguments
create_host_config(hc_kwargs) == [t |-> "host_config", v |-> hc_kwargs]

\* What a builder leaves behind: its return value, the configuration object
\* and the override dict object after the call.
Built(c_kwargs, container_config, kwargs) ==
    [ret |-> c_kwargs, container_config |-> container_config, kwargs |-> kwargs]

host_config_kept(kwargs) ==
    [hc_extra_kwargs |-> IF Truthy(kwargs) THEN Get(kwargs.v, "host_config") ELSE NoneV,
     kwargs |-> kwargs]

\* kwargs.pop('host_config', None) if kwargs else None: the popped value and
\* the dict object afterwards
pop_host_config(kwargs) ==
    IF Truthy(kwargs)
    THEN [hc_extra_kwargs |-> Get(kwargs.v, "host_config"),
          kwargs |-> Dict(Pop(kwargs.v, "host_config"))]
    ELSE [hc_extra_kwargs |-> NoneV, kwargs |-> kwargs]

volume_str_rw(map_name, u) == cname(map_name, u.volume, NoneV)

\* volume_str(u) of get_host_config_kwargs, for the map name it closes over
volume_str(map_name, u) ==
    IF u.readonly THEN cname(map_name, u.volume, NoneV) \o ":ro"
    ELSE cname(map_name, u.volume, NoneV)

caller_first(options, kwargs) == <<kwargs, init_options(options)>>

\* The updates handed to update_kwargs after the derived values, in order:
\* init_options(create_options or host_config), then the caller's kwargs
option_layers(options, kwargs) == <<init_options(options), kwargs>>

\* The configurations the builders are called on name no interface and
\* only resolvable binds, so get_port_bindings and get_host_binds return here.
get_host_config_kwargs(container_config, container_name, instance, kwargs) ==
    LET map_name == container_map.name
        volumes_from ==
            [i \in 1..Len(container_config.uses) |->
                Str(volume_str(map_name, container_config.uses[i]))]
            \o [i \in 1..Len(container_config.attaches) |->
                  Str(aname(map_name, container_config.attaches[i],
                            IF container_map.use_attached_parent_name
                            THEN Str(config_name) ELSE NoneV))]
        c_kwargs0 ==
            [links |-> Dict([l \in {cname(map_name, container_config.links[i][1], NoneV) :
                                      i \in 1..Len(container_config.links)} |->
                               LET i == CHOOSE k \in 1..Len(container_config.links) :
                                           cname(map_name, container_config.links[k][1], NoneV) = l
                               IN  Str(container_config.links[i][2])]),
             binds |-> Dict(get_host_binds(container_map, container_config, instance).host_binds),
             volumes_from |-> List(volumes_from),
             port_bindings |-> Dict(get_port_bindings(container_config, client_config).port_bindings)]
        network_mode == container_config.network
        c_kwargs1 == IF network_mode.t = "tuple"
                     THEN Put(c_kwargs0, "network_mode",
                              Str(cname(map_name, network_mode.v[1].v, network_mode.v[2])))
                     ELSE IF network_mode.t = "str"
                     THEN Put(c_kwargs0, "network_mode", network_mode)
                     ELSE c_kwargs0
        c_kwargs2 == IF Truthy(container_name) THEN Put(c_kwargs1, "container", container_name)
                     ELSE c_kwargs1
    IN  Built(update_kwargs_plain(c_kwargs2,
                                  option_layers(container_config.host_config, kwargs)),
              container_config, kwargs)

get_create_kwargs(container_config, container_name, instance, inc_host_config, kwargs) ==
    LET c_kwargs0 ==
            [name |-> container_name,
             image |-> Str(iname(container_map,
                                 PyOr(container_config.image, Str(config_name)).v)),
             volumes |-> List(get_volumes(container_map, container_config).volumes),
             user |-> extract_user(container_config.user),
             ports |-> List([i \in 1..Len(container_config.exposes) |->
                               resolve_value(container_config.exposes[i].exposed_port)]),
             hostname |-> IF container_map.set_hostname
                          THEN Str(get_hostname(client_name, container_name.v)) ELSE NoneV,
             domainname |-> get_domainname(container_map, client_config),
             environment |-> get_environment(container_config)]
        c_kwargs1 == IF Eq(container_config.network, Str("disabled"))
                     THEN Put(c_kwargs0, "network_disabled", Bool(TRUE)) ELSE c_kwargs0
        popped == pop_host_config(kwargs)
        hc_kwargs == get_host_config_kwargs(container_config, NoneV, instance,
                                            popped.hc_extra_kwargs).ret
        c_kwargs2 == IF inc_host_config /\ hc_kwargs # <<>>
                     THEN Put(c_kwargs1, "host_config", create_host_config(hc_kwargs))
                     ELSE c_kwargs1
        st == update_kwargs([kwargs |-> c_kwargs2,
                             heap |-> [environment |-> container_config.environment]],
                            option_layers(container_config.create_options, popped.kwargs))
    IN  Built(st.kwargs, [container_config EXCEPT !.environment = st.heap.environment],
              popped.kwargs)

get_attached_host_config_kwargs(container_config, container_name, kwargs) ==
    Built(update_kwargs_plain(IF Truthy(container_name)
                              THEN [container |-> container_name] ELSE <<>>,
                              <<kwargs>>),
          container_config, kwargs)

no_volumes(vol_path) == List(<<>>)

\* volumes=[path]
attached_volumes(vol_path) == List(<<vol_path>>)

get_attached_create_kwargs(container_config, container_name, inc_host_config, kwargs) ==
    LET vol_path == resolve_value(container_map.volumes[alias])
        user == extract_user(container_config.user)
        c_kwargs0 == [name |-> container_name, image |-> Str(base_image),
                      volumes |-> attached_volumes(vol_path), user |-> user,
                      network_disabled |-> Bool(TRUE)]
        popped == pop_host_config(kwargs)
        hc_kwargs == get_attached_host_config_kwargs(container_config, NoneV,
                                                     popped.hc_extra_kwargs).ret
        c_kwargs1 == IF inc_host_config /\ hc_kwargs # <<>>
                     THEN Put(c_kwargs0, "host_config", create_host_config(hc_kwargs))
                     ELSE c_kwargs0
    IN  Built(update_kwargs_plain(c_kwargs1, <<popped.kwargs>>),
              container_config, popped.kwargs)

get_attached_preparation_host_config_kwargs(container_config, container_name, v_container, kwargs) ==
    LET c_kwargs0 == [volumes_from |-> List(<<Str(v_container)>>)]
        c_kwargs1 == IF Truthy(container_name) THEN Put(c_kwargs0, "container", container_name)
                     ELSE c_kwargs0
    IN  Built(update_kwargs_plain(c_kwargs1, <<kwargs>>), container_config, kwargs)

\* shortcuts.get_user_group: "user:group", the group defaulting to the user
get_user_group(user) ==
    IF user.t = "tuple" THEN user.v[1].v \o ":" \o user.v[2].v
    ELSE LET name == IF user.t = "int" THEN ToString(user.v) ELSE user.v
         IN  IF IsSub(":", name) THEN name ELSE name \o ":" \o name

RECURSIVE Join(_, _)
\* sep.join(parts)
Join(sep, parts) ==
    IF parts = <<>> THEN ""
    ELSE IF Len(parts) = 1 THEN parts[1]
    ELSE parts[1] \o sep \o Join(sep, Tail(parts))

get_attached_preparation_create_kwargs(container_config, container_name, v_container, inc_host_config, kwargs) ==
    LET vol_path == resolve_value(container_map.volumes[alias])
        user == resolve_value(container_config.user)
        permissions == container_config.permissions
        get_cmd ==
            (IF Truthy(user)
             THEN <<"chown -R " \o get_user_group(user) \o " " \o vol_path.v>> ELSE <<>>)
            \o (IF Truthy(permissions)
                THEN <<"chmod -R " \o permissions.v \o " " \o vol_path.v>> ELSE <<>>)
        c_kwargs0 == [image |-> Str(core_image), command |-> Str(Join(" && ", get_cmd)),
                      user |-> Str("root"), network_disabled |-> Bool(TRUE)]
        popped == pop_host_config(kwargs)
        hc_kwargs == get_attached_preparation_host_config_kwargs(
                         container_config, NoneV, v_container, popped.hc_extra_kwargs).ret
        c_kwargs1 == IF inc_host_config /\ hc_kwargs # <<>>
                     THEN Put(c_kwargs0, "host_config", create_host_config(hc_kwargs))
                     ELSE c_kwargs0
    IN  Built(update_kwargs_plain(c_kwargs1, <<popped.kwargs>>),
              container_config, popped.kwargs)

is_truthy(stop_timeout) == Truthy(stop_timeout)

\* not (container_config.stop_timeout is NotSet)
is_set(stop_timeout) == ~Eq(stop_timeout, NotSet)

\* container and, where one is configured, the stop timeout
get_stop_kwargs(container_config, container_name, kwargs) ==
    LET c_kwargs0 == [container |-> container_name]
        timeout == Get(client_config, "stop_timeout")
        c_kwargs1 == IF ~is_set(container_config.stop_timeout)
                     THEN IF timeout.t # "none" THEN Put(c_kwargs0, "timeout", timeout)
                          ELSE c_kwargs0
                     ELSE Put(c_kwargs0, "timeout", container_config.stop_timeout)
    IN  Built(update_kwargs_plain(c_kwargs1, <<kwargs>>), container_config, kwargs)

get_restart_kwargs(container_config, container_name, kwargs) ==
    LET c_kwargs0 == [container |-> container_name]
        timeout == Get(client_config, "stop_timeout")
        c_kwargs1 == IF ~is_set(container_config.stop_timeout)
                     THEN IF timeout.t # "none" THEN Put(c_kwargs0, "timeout", timeout)
                          ELSE c_kwargs0
                     ELSE Put(c_kwargs0, "timeout", container_config.stop_timeout)
    IN  Built(update_kwargs_plain(c_kwargs1, <<kwargs>>), container_config, kwargs)

get_remove_kwargs(container_config, container_name, kwargs) ==
    Built(update_kwargs_plain([container |-> container_name], <<kwargs>>),
          container_config, kwargs)

\* ---- one action per builder call ----
MaxCalls == 2

c_name == Str(cname(container_map.name, config_name, NoneV))

\* A further call can be made.
CanCall ==
    \/ kpc = "ready" /\ Len(results) < MaxCalls
    \/ kpc = "once" /\ results = <<>>

\* The call returns: the objects it was given are as it left them, and its
\* return value is recorded.
Returns(builder, built) ==
    /\ cfg' = built.container_config
    /\ caller' = built.kwargs
    /\ results' = Append(results, [builder |-> builder, ret |-> built.ret])
    /\ UNCHANGED <<kpc, container_map, client_config, cfg0, caller0, hostcfg>>
    /\ UNCHANGED <<upc, u_kwargs, u_updates, u_result, libraryVars>>
    /\ UNCHANGED <<actionVars, prepareVars>>

GetCreateKwargs ==
    /\ CanCall
    /\ Returns("get_create_kwargs", get_create_kwargs(cfg, c_name, NoneV, hostcfg, caller))

GetHostConfigKwargs ==
    /\ CanCall
    /\ Returns("get_host_config_kwargs", get_host_config_kwargs(cfg, c_name, NoneV, caller))

GetAttachedCreateKwargs ==
    /\ CanCall
    /\ Returns("get_attached_create_kwargs",
               get_attached_create_kwargs(cfg, c_name, hostcfg, caller))

GetAttachedHostConfigKwargs ==
    /\ CanCall
    /\ Returns("get_attached_host_config_kwargs",
               get_attached_host_config_kwargs(cfg, c_name, caller))

GetAttachedPreparationCreateKwargs ==
    /\ CanCall
    /\ Returns("get_attached_preparation_create_kwargs",
               get_attached_preparation_create_kwargs(cfg, Str("temp"), volume_container,
                                                      hostcfg, caller))

GetAttachedPreparationHostConfigKwargs ==
    /\ CanCall
    /\ Returns("get_attached_preparation_host_config_kwargs",
               get_attached_preparation_host_config_kwargs(cfg, Str("temp"), volume_container,
                                                           caller))

GetRestartKwargs ==
    /\ CanCall
    /\ Returns("get_restart_kwargs", get_restart_kwargs(cfg, c_name, caller))

GetStopKwargs ==
    /\ CanCall
    /\ Returns("get_stop_kwargs", get_stop_kwargs(cfg, c_name, caller))

GetRemoveKwargs ==
    /\ CanCall
    /\ Returns("get_remove_kwargs", get_remove_kwargs(cfg, c_name, caller))

\* One get_host_binds call and one get_volumes call: the outcome is
\* recorded as the call's result.
GetHostBinds ==
    /\ CanCall
    /\ Returns("get_host_binds", Built(get_host_binds(container_map, cfg, NoneV), cfg, caller))

GetVolumes ==
    /\ CanCall
    /\ Returns("get_volumes", Built(get_volumes(container_map, cfg), cfg, caller))

\* One get_port_bindings call: its outcome is recorded as the call's result.
GetPortBindings ==
    /\ CanCall
    /\ Returns("get_port_bindings", Built(get_port_bindings(cfg, client_config), cfg, caller))

\* ---- one update_kwargs call ----
Update ==
    /\ upc = "ready"
    /\ u_result' = update_kwargs_plain(u_kwargs, u_updates)
    /\ upc' = "done"
    /\ UNCHANGED <<kpc, container_map, client_config, cfg, caller, cfg0, caller0, hostcfg>>
    /\ UNCHANGED <<results, u_kwargs, u_updates, libraryVars>>
    /\ UNCHANGED <<actionVars, prepareVars>>

\* ------------------------------------------------------------------------
\* BasePolicy.get_clients (policy/base.py) and the sequential
\* ClientConfiguration.get_client (config.py)
\* ------------------------------------------------------------------------
\* client_constructor(**self.get_init_kwargs()): the handle made for the
\* configuration registered under the name
client_constructor(name) == "client_" \o name

\* get_client() of the configuration registered under the name, when no
\* other call runs: the handle, and the configuration afterwards
get_client(client_config_obj, name) ==
    IF client_config_obj.client # None
    THEN [client |-> client_config_obj.client, config |-> client_config_obj]
    ELSE [client |-> client_constructor(name),
          config |-> [client_config_obj EXCEPT !.client = client_constructor(name)]]

map_clients_first(c_config, c_map) ==
    IF c_map.clients # <<>> THEN c_map.clients
    ELSE IF c_config.clients # <<>> THEN c_config.clients
    ELSE <<get_default_client_name>>

\* the client names get_clients goes through
selected_clients(c_config, c_map) ==
    IF c_config.clients # <<>> THEN c_config.clients
    ELSE IF c_map.clients # <<>> THEN c_map.clients
    ELSE <<get_default_client_name>>

RECURSIVE map_get_client(_, _, _)
\* tuple(map(_get_client, names)): the triples so far, the registry as the
\* get_client calls leave it, and the KeyError of self._clients[client_name]
map_get_client(registry, names, triples) ==
    IF names = <<>> THEN [exc |-> "none", ret |-> triples, clients |-> registry]
    ELSE LET a_client_name == Head(names)
         IN  IF a_client_name \notin DOMAIN registry
             THEN [exc |-> "KeyError", ret |-> <<>>, clients |-> registry]
             ELSE LET got == get_client(registry[a_client_name], a_client_name)
                  IN  map_get_client([registry EXCEPT ![a_client_name] = got.config],
                                     Tail(names),
                                     Append(triples, [name |-> a_client_name,
                                                      client |-> got.client,
                                                      config |-> a_client_name]))

get_clients(registry, c_config, c_map) ==
    map_get_client(registry, selected_clients(c_config, c_map), <<>>)

\* One get_clients call: its outcome is recorded, and the registered
\* configurations keep the handles it made.
GetClients ==
    /\ CanCall
    /\ LET outcome == get_clients(clients, cfg, container_map)
       IN  /\ results' = Append(results, [builder |-> "get_clients",
                                          ret |-> [exc |-> outcome.exc, ret |-> outcome.ret]])
           /\ clients' = outcome.clients
    /\ UNCHANGED <<kpc, container_map, client_config, cfg, caller, cfg0, caller0, hostcfg>>
    /\ UNCHANGED <<upc, u_kwargs, u_updates, u_result>>
    /\ UNCHANGED <<m_current, m_prev, m_update, m_count>>
    /\ UNCHANGED <<g_pc, g_local, g_client, g_constructed, g_ret>>
    /\ UNCHANGED <<actionVars, prepareVars>>

\* ------------------------------------------------------------------------
\* ContainerConfiguration.merge on binds, uses, links and exposes (config.py)
\* ------------------------------------------------------------------------
MaxMerges == 2

\* set(item[0] for item in a_list)
first_elements(a_list) == {a_list[i][1] : i \in 1..Len(a_list)}

\* _merge_first(current, update_list): the list current is afterwards
merge_first(current, update_list) ==
    IF update_list = <<>> THEN current
    ELSE LET new_keys == first_elements(update_list) \ first_elements(current)
         IN  current \o SelectSeq(update_list, LAMBDA u : u[1] \in new_keys)

\* merge(values): _merge_first(self._binds, update_binds), and the same on
\* uses, links and exposes
Merge ==
    /\ m_count < MaxMerges
    /\ \E update_list \in Seqs({"logs", "run"} \X {1, 2}, MaxLen) :
          /\ m_update' = update_list
          /\ m_current' = merge_first(m_current, update_list)
    /\ m_prev' = m_current
    /\ m_count' = m_count + 1
    /\ UNCHANGED <<kpc, container_map, client_config, cfg, caller, cfg0, caller0, hostcfg>>
    /\ UNCHANGED <<results, upc, u_kwargs, u_updates, u_result, clients>>
    /\ UNCHANGED <<g_pc, g_local, g_client, g_constructed, g_ret>>
    /\ UNCHANGED <<actionVars, prepareVars>>

\* ------------------------------------------------------------------------
\* ClientConfiguration.get_client called from several threads (config.py)
\* ------------------------------------------------------------------------
MaxThreads == 2

Threads == 1..MaxThreads

\* the handle client_constructor returns on its n-th invocation; handle 0 is
\* the one from_client was given
constructed_client(n) == client_constructor(ToString(n))

\* the part of the state get_client leaves alone
GetClientFrame ==
    /\ UNCHANGED <<kpc, container_map, client_config, cfg, caller, cfg0, caller0, hostcfg>>
    /\ UNCHANGED <<results, upc, u_kwargs, u_updates, u_result, clients>>
    /\ UNCHANGED <<m_current, m_prev, m_update, m_count>>
    /\ UNCHANGED <<actionVars, prepareVars>>

\* a thread calls get_client()
CallGetClient ==
    \E t \in Threads :
        /\ g_pc[t] = "idle"
        /\ Len(g_ret[t]) < MaxCalls
        /\ g_pc' = [g_pc EXCEPT ![t] = "read"]
        /\ UNCHANGED <<g_local, g_client, g_constructed, g_ret>>
        /\ GetClientFrame

\* client = self._client; if not client: ...
ReadClient ==
    \E t \in Threads :
        /\ g_pc[t] = "read"
        /\ g_local' = [g_local EXCEPT ![t] = g_client]
        /\ g_pc' = [g_pc EXCEPT ![t] = IF g_client = None THEN "construct" ELSE "return"]
        /\ UNCHANGED <<g_client, g_constructed, g_ret>>
        /\ GetClientFrame

\* client = self.client_constructor(**self.get_init_kwargs())
ConstructClient ==
    \E t \in Threads :
        /\ g_pc[t] = "construct"
        /\ g_constructed' = g_constructed + 1
        /\ g_local' = [g_local EXCEPT ![t] = constructed_client(g_constructed + 1)]
        /\ g_pc' = [g_pc EXCEPT ![t] = "set"]
        /\ UNCHANGED <<g_client, g_ret>>
        /\ GetClientFrame

\* self._client = client
SetClient ==
    \E t \in Threads :
        /\ g_pc[t] = "set"
        /\ g_client' = g_local[t]
        /\ g_pc' = [g_pc EXCEPT ![t] = "return"]
        /\ UNCHANGED <<g_local, g_constructed, g_ret>>
        /\ GetClientFrame

\* return client
ReturnClient ==
    \E t \in Threads :
        /\ g_pc[t] = "return"
        /\ g_ret' = [g_ret EXCEPT ![t] = Append(@, g_local[t])]
        /\ g_pc' = [g_pc EXCEPT ![t] = "idle"]
        /\ UNCHANGED <<g_local, g_client, g_constructed>>
        /\ GetClientFrame

\* ------------------------------------------------------------------------
\* Initial states
\* ------------------------------------------------------------------------
\* instances arguments a caller passes to get_actions
InstanceArgs ==
    {NoneV, List(<<>>), List(<<Str("i1"), Str("i2")>>), Tuple(<<Str("i2")>>)}

\* **kwargs a caller passes to get_actions
KwargsArgs == {NoKwargs, {<<"force", "yes">>}}

Unset == [t |-> "unset", v |-> <<>>]

ActionsIdle ==
    /\ deps = [c \in Containers |-> {}]
    /\ container_maps = [m \in Maps |-> {}]
    /\ req = [map_name |-> 1, container |-> 1, instances |-> NoneV,
              kwargs |-> NoKwargs, mode |-> "forward"]
    /\ pc = "idle"
    /\ path = <<>>
    /\ idx = 1
    /\ calls = <<>>
    /\ gens = <<>>
    /\ ret = Unset
    /\ exc = "none"

PrepareIdle ==
    /\ ppc = "idle"
    /\ engine = <<>>
    /\ fail = {}
    /\ temp_id = None
    /\ pending = "none"
    /\ pexc = "none"
    /\ include_host_config = FALSE

\* no get_clients, merge or get_client call is under way
RegistryIdle == clients = <<>>
MergeIdle == m_current = <<>> /\ m_prev = <<>> /\ m_update = <<>> /\ m_count = 0
ClientIdle ==
    /\ g_pc = <<>>
    /\ g_local = <<>>
    /\ g_client = None
    /\ g_constructed = 0
    /\ g_ret = <<>>
LibraryIdle == RegistryIdle /\ MergeIdle /\ ClientIdle

BuildersIdle ==
    /\ kpc = "idle"
    /\ container_map = sample_map
    /\ client_config = sample_client_config
    /\ cfg = <<>>
    /\ caller = NoneV
    /\ cfg0 = <<>>
    /\ caller0 = NoneV
    /\ hostcfg = FALSE
    /\ results = <<>>
    /\ upc = "idle"
    /\ u_kwargs = <<>>
    /\ u_updates = <<>>
    /\ u_result = <<>>

KwargsIdle == BuildersIdle /\ LibraryIdle

\* A policy constructed over maps whose configurations form an acyclic
\* dependency graph, the last configuration possibly missing, and one
\* get_actions call about to run, naming a container and either its own map
\* or another one.
InitActions ==
    /\ \E existing \in {Containers, Containers \ {NumContainers}} :
          /\ container_maps = [m \in Maps |-> {c \in existing : MapOf(c) = m}]
          /\ deps \in [Containers -> SUBSET Containers]
          /\ \A c \in Containers \ existing : deps[c] = {}
    /\ Acyclic(deps)
    /\ req \in [map_name : Maps, container : Containers, instances : InstanceArgs,
                kwargs : KwargsArgs, mode : {"forward", "reverse"}]
    /\ req.map_name \in {MapOf(req.container), (MapOf(req.container) % NumMaps) + 1}
    /\ pc = "start"
    /\ path = <<>>
    /\ idx = 1
    /\ calls = <<>>
    /\ gens = <<>>
    /\ ret = Unset
    /\ exc = "none"
    /\ PrepareIdle
    /\ KwargsIdle

\* One prepare_container call about to run; `fail` fixes which of its calls
\* raise.
InitPrepare ==
    /\ ppc = "wait_volume"
    /\ engine = <<>>
    /\ fail \in SUBSET PrepareOps
    /\ temp_id = None
    /\ pending = "none"
    /\ pexc = "none"
    /\ include_host_config \in BOOLEAN
    /\ ActionsIdle
    /\ KwargsIdle

NextPrepare == WaitVolume \/ CreateTemp \/ StartTemp \/ WaitTemp \/ RemoveTemp

SpecPrepare == InitPrepare /\ [][NextPrepare]_vars

NextActions == ComputePath \/ DependencyItem \/ TargetItem

SpecActions == InitActions /\ [][NextActions]_vars

\* ---- builder scenario ----
EnvironmentValues == <<List(<<>>), List(<<Str("A=1")>>), Dict([A |-> "1"])>>

new_binds == Dict("/new_h" :> Dict([bind |-> Str("/new_c"), ro |-> Bool(FALSE)]))

CreateOptionsValues ==
    <<NoneV,
      Dict([environment |-> List(<<Str("B=2")>>)]),
      Dict([ports |-> List(<<Num(8080)>>)]),
      Callable(Dict([command |-> Str("run")])),
      Dict([user |-> Str("www"), hostname |-> Lazy(Str("web"))])>>

HostConfigValues ==
    <<NoneV, Dict([privileged |-> Bool(TRUE)]), Dict([container |-> Str("main.web")])>>

CallerValues ==
    <<NoneV,
      Dict(<<>>),
      Dict([ports |-> List(<<Num(22)>>)]),
      Dict([environment |-> Tuple(<<Str("C=3")>>)]),
      Dict([host_config |-> Dict([binds |-> new_binds])]),
      Dict([ports |-> List(<<Num(22)>>), host_config |-> Dict([binds |-> new_binds])]),
      Dict([user |-> Str("root"), container |-> Str("other")])>>

SampleConfig(environment, create_options, host_config) ==
    [image |-> Str("nginx"), user |-> Str("2000"), permissions |-> Str("u=rwX,g=rX,o="),
     shares |-> <<Str("/var/log/nginx")>>,
     binds |-> <<[volume |-> Str("web_config"), readonly |-> TRUE]>>,
     uses |-> <<[volume |-> "app_server_socket", readonly |-> FALSE]>>,
     attaches |-> <<"web_log">>,
     links |-> << <<"app_server", "app">> >>,
     exposes |-> <<[exposed_port |-> Num(80), host_port |-> Num(80), interface |-> NoneV],
                   [exposed_port |-> Num(443), host_port |-> NoneV, interface |-> NoneV]>>,
     network |-> NotSet, stop_timeout |-> NotSet,
     environment |-> environment, create_options |-> create_options,
     host_config |-> host_config]

\* One configuration object and one override dict object, handed to every
\* builder call of the run.
InitKwargs ==
    /\ kpc = "ready"
    /\ container_map = sample_map
    /\ client_config = sample_client_config
    /\ \E e \in DOMAIN EnvironmentValues, c \in DOMAIN CreateOptionsValues,
          h \in DOMAIN HostConfigValues :
            cfg = SampleConfig(EnvironmentValues[e], CreateOptionsValues[c],
                               HostConfigValues[h])
    /\ \E k \in DOMAIN CallerValues : caller = CallerValues[k]
    /\ cfg0 = cfg
    /\ caller0 = caller
    /\ hostcfg \in BOOLEAN
    /\ results = <<>>
    /\ upc = "idle"
    /\ u_kwargs = <<>>
    /\ u_updates = <<>>
    /\ u_result = <<>>
    /\ LibraryIdle
    /\ ActionsIdle
    /\ PrepareIdle

NextKwargs ==
    \/ GetCreateKwargs
    \/ GetHostConfigKwargs
    \/ GetAttachedCreateKwargs
    \/ GetAttachedHostConfigKwargs
    \/ GetAttachedPreparationCreateKwargs
    \/ GetAttachedPreparationHostConfigKwargs
    \/ GetRestartKwargs
    \/ GetStopKwargs
    \/ GetRemoveKwargs

SpecKwargs == InitKwargs /\ [][NextKwargs]_vars

\* ---- get_port_bindings arguments ----
MaxPorts == 3

ExposedPorts == <<80, 443, 8443, 9000>>
HostPorts == <<NoneV, Num(8080), Lazy(Num(8081))>>
Interfaces == <<NoneV, Str("private"), Lazy(Str("public"))>>
InterfaceTables ==
    <<Dict(<<>>), Dict([private |-> Str("10.0.0.1")]),
      Dict([private |-> Lazy(Str("10.0.0.1")), public |-> Str("")])>>

\* the i-th entry of exposes: its own container port, and the host port and
\* interface the two indices select
PortBinding(i, h, f) ==
    [exposed_port |-> Num(ExposedPorts[i]), host_port |-> HostPorts[h],
     interface |-> Interfaces[f]]

\* One get_port_bindings call about to run, on a configuration exposing up
\* to MaxPorts distinct container ports and a client with or without
\* addresses for the interfaces named.
InitPorts ==
    /\ kpc = "once"
    /\ container_map = sample_map
    /\ \E t \in DOMAIN InterfaceTables :
          client_config = [stop_timeout |-> Num(5), interfaces |-> InterfaceTables[t]]
    /\ \E n \in 1..MaxPorts :
          \E hs \in [1..n -> DOMAIN HostPorts], fs \in [1..n -> DOMAIN Interfaces] :
             cfg = [SampleConfig(EnvironmentValues[1], NoneV, NoneV)
                       EXCEPT !.exposes = [i \in 1..n |-> PortBinding(i, hs[i], fs[i])]]
    /\ caller = NoneV
    /\ cfg0 = cfg
    /\ caller0 = caller
    /\ hostcfg = FALSE
    /\ results = <<>>
    /\ upc = "idle"
    /\ u_kwargs = <<>>
    /\ u_updates = <<>>
    /\ u_result = <<>>
    /\ LibraryIdle
    /\ ActionsIdle
    /\ PrepareIdle

NextPorts == GetPortBindings

SpecPorts == InitPorts /\ [][NextPorts]_vars

\* ---- get_clients arguments ----
ClientNames == {"c1", "c2"}

\* One get_clients call about to run: the configuration and the map each
\* have a client list or none, and the registry holds some of the names,
\* each with or without a handle.
InitClients ==
    /\ kpc = "once"
    /\ \E names \in SUBSET (ClientNames \cup {get_default_client_name}) :
          \E made \in SUBSET names :
             clients = [n \in names |->
                          [client |-> IF n \in made THEN client_constructor(n) ELSE None]]
    /\ \E cs \in Seqs(ClientNames, MaxLen) : cfg = [clients |-> cs]
    /\ \E ms \in Seqs(ClientNames, MaxLen) : container_map = [name |-> "main", clients |-> ms]
    /\ client_config = sample_client_config
    /\ caller = NoneV
    /\ cfg0 = cfg
    /\ caller0 = caller
    /\ hostcfg = FALSE
    /\ results = <<>>
    /\ upc = "idle"
    /\ u_kwargs = <<>>
    /\ u_updates = <<>>
    /\ u_result = <<>>
    /\ MergeIdle
    /\ ClientIdle
    /\ ActionsIdle
    /\ PrepareIdle

NextClients == GetClients

SpecClients == InitClients /\ [][NextClients]_vars

\* ---- merge arguments ----
\* A configuration whose list holds no two entries with the same first
\* element, about to be merged with other values.
InitMerge ==
    /\ m_current \in Seqs({"data", "logs"} \X {1}, MaxLen)
    /\ \A i, j \in 1..Len(m_current) : m_current[i][1] = m_current[j][1] => i = j
    /\ m_prev = <<>>
    /\ m_update = <<>>
    /\ m_count = 0
    /\ RegistryIdle
    /\ ClientIdle
    /\ BuildersIdle
    /\ ActionsIdle
    /\ PrepareIdle

NextMerge == Merge

SpecMerge == InitMerge /\ [][NextMerge]_vars

\* ---- get_client callers ----
\* A configuration constructed without a client, or by from_client with
\* one, and threads that have not called get_client yet.
InitGetClient ==
    /\ g_client \in {None, constructed_client(0)}
    /\ g_pc = [t \in Threads |-> "idle"]
    /\ g_local = [t \in Threads |-> None]
    /\ g_constructed = 0
    /\ g_ret = [t \in Threads |-> <<>>]
    /\ RegistryIdle
    /\ MergeIdle
    /\ BuildersIdle
    /\ ActionsIdle
    /\ PrepareIdle

NextGetClient == CallGetClient \/ ReadClient \/ ConstructClient \/ SetClient \/ ReturnClient

SpecGetClient == InitGetClient /\ [][NextGetClient]_vars

\* ---- update_kwargs arguments ----
UpdateKeys == {"ports", "environment", "command", "entrypoint", "man"}

\* element n of an existing list, and of an override list (one of them late
\* resolved)
ExistingElement(n) == Num(n)
UpdateElement(n) == IF n = 3 THEN Lazy(Num(3)) ELSE Num(n)

ExistingList(s) == [i \in DOMAIN s |-> ExistingElement(s[i])]
UpdateList(s) == [i \in DOMAIN s |-> UpdateElement(s[i])]

OtherExisting ==
    <<Str("x"), Dict([a |-> Num(1)]), Dict([a |-> Dict([x |-> Num(1)]), c |-> Num(1)])>>
OtherUpdates ==
    <<NoneV, Lazy(NoneV), Str("y"), Dict([b |-> Num(2)]), Dict([a |-> Lazy(Num(3))]),
      Dict([a |-> Dict([y |-> Num(2)]), b |-> Num(2)])>>

\* kwargs holds a name and possibly a value under the key; the update is
\* None, empty, or holds a value under the key.
InitUpdate ==
    /\ upc = "ready"
    /\ \E key \in UpdateKeys :
          /\ \/ u_kwargs = [name |-> Str("n")]
             \/ \E s \in Seqs({1, 2}, MaxLen) :
                   \/ u_kwargs = Put([name |-> Str("n")], key, List(ExistingList(s)))
                   \/ u_kwargs = Put([name |-> Str("n")], key, Tuple(ExistingList(s)))
             \/ \E i \in DOMAIN OtherExisting :
                   u_kwargs = Put([name |-> Str("n")], key, OtherExisting[i])
          /\ \/ u_updates = <<NoneV>>
             \/ u_updates = <<Dict(<<>>)>>
             \/ \E s \in Seqs({2, 3}, MaxLen) :
                   \/ u_updates = <<Dict(key :> List(UpdateList(s)))>>
                   \/ u_updates = <<Dict(key :> Tuple(UpdateList(s)))>>
                   \/ u_updates = <<Dict(key :> Lazy(List(UpdateList(s))))>>
             \/ \E i \in DOMAIN OtherUpdates :
                   u_updates = <<Dict(key :> OtherUpdates[i])>>
    /\ u_result = <<>>
    /\ kpc = "idle"
    /\ container_map = sample_map
    /\ client_config = sample_client_config
    /\ cfg = <<>>
    /\ caller = NoneV
    /\ cfg0 = <<>>
    /\ caller0 = NoneV
    /\ hostcfg = FALSE
    /\ results = <<>>
    /\ LibraryIdle
    /\ ActionsIdle
    /\ PrepareIdle

NextUpdate == Update

SpecUpdate == InitUpdate /\ [][NextUpdate]_vars

\* ---- one builder call on varied maps, clients and configurations ----
UsedVolumes == {"app_log", "app_server_socket"}
AttachesValues == << <<>>, <<"web_log">>, <<"web_log", "web_tmp">> >>
StopTimeouts == <<NotSet, Num(0), Num(10)>>
ClientValues ==
    <<[interfaces |-> Dict(<<>>)],
      [stop_timeout |-> NoneV, interfaces |-> Dict(<<>>)],
      [stop_timeout |-> Num(5), interfaces |-> Dict(<<>>)]>>
UserValues ==
    <<NotSet, NoneV, Str("2000"), Str("2000:3000"), Lazy(Str("app")), Num(1000),
      Tuple(<<Str("app"), Str("www")>>), Num(0), Str("0")>>
PermissionsValues == <<NotSet, Str("u=rwX,g=rX,o=")>>
AttachedCallerValues ==
    <<NoneV,
      Dict(<<>>),
      Dict([host_config |-> Dict([binds |-> new_binds])]),
      Dict([labels |-> Dict([role |-> Str("volume")])]),
      Dict([image |-> Str("alpine"), user |-> Str("nobody")]),
      Dict([network_disabled |-> Bool(FALSE)]),
      Dict([volumes |-> List(<<Str("/data")>>)]),
      Dict([ports |-> List(<<Num(22)>>)]),
      Dict([environment |-> List(<<Str("C=3")>>)])>>

PlainConfig == SampleConfig(EnvironmentValues[1], NoneV, NoneV)

\* One builder call about to run.  Either the volumes used and attached and
\* the map's naming scheme vary, or the stop timeouts of configuration and
\* client, or user, permissions and caller overrides.
InitDerive ==
    /\ kpc = "once"
    /\ \/ /\ \E p \in BOOLEAN : container_map = [sample_map EXCEPT !.use_attached_parent_name = p]
          /\ client_config = sample_client_config
          /\ \E us \in Seqs([volume : UsedVolumes, readonly : BOOLEAN], MaxLen),
                a \in DOMAIN AttachesValues :
                cfg = [PlainConfig EXCEPT !.uses = us, !.attaches = AttachesValues[a]]
          /\ caller = NoneV
          /\ hostcfg = FALSE
       \/ /\ container_map = sample_map
          /\ \E c \in DOMAIN ClientValues : client_config = ClientValues[c]
          /\ \E t \in DOMAIN StopTimeouts : cfg = [PlainConfig EXCEPT !.stop_timeout = StopTimeouts[t]]
          /\ caller = NoneV
          /\ hostcfg = FALSE
       \/ /\ container_map = sample_map
          /\ client_config = sample_client_config
          /\ \E u \in DOMAIN UserValues, m \in DOMAIN PermissionsValues :
                cfg = [PlainConfig EXCEPT !.user = UserValues[u],
                                          !.permissions = PermissionsValues[m]]
          /\ \E k \in DOMAIN AttachedCallerValues : caller = AttachedCallerValues[k]
          /\ hostcfg \in BOOLEAN
    /\ cfg0 = cfg
    /\ caller0 = caller
    /\ results = <<>>
    /\ upc = "idle"
    /\ u_kwargs = <<>>
    /\ u_updates = <<>>
    /\ u_result = <<>>
    /\ LibraryIdle
    /\ ActionsIdle
    /\ PrepareIdle

SpecDerive == InitDerive /\ [][NextKwargs]_vars

\* ---- binds of a configuration ----
\* volumes a bind can name: aliases the map resolves fully, only to a
\* container path, only to a host path or not at all, and path tuples of two
\* paths, of one or three elements, and of two elements that are no paths
BindVolumes ==
    <<Str("web_config"), Str("app_data"), Str("host_only"), Str("missing"),
      Tuple(<<Str("/srv/c"), Lazy(Str("h"))>>),
      Tuple(<<Str("/srv/c")>>),
      Tuple(<<Str("/srv/c"), Str("/srv/h"), Str("ro")>>),
      Tuple(<<Str("c"), Str("/srv/h")>>)>>

bind_map ==
    [sample_map EXCEPT
        !.volumes = [web_log |-> Str("/var/log/nginx"), web_config |-> Str("/etc/nginx"),
                     app_data |-> Lazy(Str("/var/lib/app/data"))],
        !.host = [root |-> Str("/var/lib/site"),
                  paths |-> [web_config |-> Dict([default |-> Str("config/nginx")]),
                             host_only |-> Str("/data")]]]

\* One get_host_binds or get_volumes call about to run, on a configuration
\* with one to MaxLen binds.
InitBinds ==
    /\ kpc = "once"
    /\ container_map = bind_map
    /\ client_config = sample_client_config
    /\ \E n \in 1..MaxLen :
          \E vs \in [1..n -> DOMAIN BindVolumes], ros \in [1..n -> BOOLEAN] :
             cfg = [PlainConfig EXCEPT
                       !.binds = [i \in 1..n |-> [volume |-> BindVolumes[vs[i]],
                                                  readonly |-> ros[i]]]]
    /\ caller = NoneV
    /\ cfg0 = cfg
    /\ caller0 = caller
    /\ hostcfg = FALSE
    /\ results = <<>>
    /\ upc = "idle"
    /\ u_kwargs = <<>>
    /\ u_updates = <<>>
    /\ u_result = <<>>
    /\ LibraryIdle
    /\ ActionsIdle
    /\ PrepareIdle

NextBinds == GetHostBinds \/ GetVolumes

SpecBinds == InitBinds /\ [][NextBinds]_vars

\* ------------------------------------------------------------------------
\* Properties of get_actions and of the dependency order
\* ------------------------------------------------------------------------
Walking == pc \in {"deps", "raised", "done"}

\* the request names a configuration together with the map it is declared on
OnOwnMap == MapOf(req.container) = req.map_name

PathNames == [i \in 1..Len(path) |-> path[i][2]]

CallNames == [i \in 1..Len(calls) |-> calls[i].container_name]

Before(s, i) == {s[k] : k \in 1..(i - 1)}

Dependencies(c) == Transitive(deps, c)

Dependents(c) == Transitive(Backward(deps), c)

\* C1: get_actions runs the item action of every dependency-path element, in
\* path order, with the dependency flag and without the caller's kwargs, and
\* only then, exactly once, the item action of the requested container with
\* flag 0 and the caller's kwargs.
C1_PathThenTarget ==
    Walking =>
        /\ Len(calls) <= Len(path) + 1
        /\ \A i \in 1..Len(calls) :
              IF i <= Len(path)
              THEN /\ calls[i].c_map = path[i][1]
                   /\ calls[i].container_name = path[i][2]
                   /\ calls[i].flags = ACTION_DEPENDENCY_FLAG
                   /\ calls[i].flags # 0
                   /\ calls[i].kwargs = NoKwargs
              ELSE /\ calls[i].c_map = req.map_name
                   /\ calls[i].container_name = req.container
                   /\ calls[i].flags = 0
                   /\ calls[i].kwargs = req.kwargs
        /\ pc = "done" => Len(calls) = Len(path) + 1

C1_Witness ==
    pc = "done" /\ Len(path) >= 2 /\ req.kwargs # NoKwargs

\* C2: when the item action of a dependency-path element raises (a lookup
\* error for a missing configuration, or an engine failure), get_actions ends
\* with that exception: nothing is returned, no further step of get_actions
\* can run, and the item action of the target has not been invoked.
C2_FailFast ==
    (pc = "raised" /\ idx <= Len(path)) =>
        /\ ret = Unset
        /\ ~ENABLED NextActions
        /\ \A i \in 1..Len(calls) : calls[i].flags = ACTION_DEPENDENCY_FLAG
        /\ \/ /\ exc = "KeyError"
              /\ path[idx][2] \notin container_maps[path[idx][1]]
              /\ Len(calls) = idx - 1
           \/ /\ exc = "EngineError"
              /\ Len(calls) = idx
              /\ calls[idx].container_name = path[idx][2]

C2_Witness ==
    pc = "raised" /\ idx < Len(path) /\ exc = "EngineError"

\* C4: for an acyclic graph the sequence of get_dependencies holds every
\* transitive dependency of the requested container, once, and no element
\* comes before something it depends on.
C4_DependenciesFirst ==
    (Walking /\ req.mode = "forward" /\ OnOwnMap) =>
        /\ Range(PathNames) = Dependencies(req.container)
        /\ \A i \in 1..Len(path) : path[i] = Item(path[i][2])
        /\ \A i \in 1..Len(path) :
              /\ PathNames[i] \notin Before(PathNames, i)
              /\ Dependencies(PathNames[i]) \subseteq Before(PathNames, i)

C4_Witness ==
    /\ pc = "done"
    /\ req.mode = "forward"
    /\ Len(path) >= 2
    /\ PathNames[1] \in deps[PathNames[2]]
    /\ PathNames[2] \in deps[req.container]

\* C5: for an acyclic graph, acting on the sequence of get_dependents in
\* order and then on the requested container acts on a container only after
\* every container that transitively depends on it; the requested container
\* comes last.
C5_DependentsFirst ==
    (Walking /\ req.mode = "reverse" /\ OnOwnMap) =>
        /\ Dependents(req.container) \subseteq Range(PathNames)
        /\ \A i \in 1..Len(path) :
              Dependents(PathNames[i]) \subseteq Before(PathNames, i)
        /\ \A i \in 1..Len(calls) :
              Dependents(CallNames[i]) \subseteq Before(CallNames, i)
        /\ pc = "done" => CallNames[Len(calls)] = req.container

C5_Witness ==
    /\ pc = "done"
    /\ req.mode = "reverse"
    /\ Len(path) >= 2
    /\ PathNames[2] \in deps[PathNames[1]]
    /\ req.container \in deps[PathNames[2]]

\* C8: get_actions returns exactly the results of the target's item action,
\* in the order produced, and none of a dependency's; every item action that
\* returned was run to its end before the next item started; a target item
\* action returning None gives the empty list.
C8_TargetResultsOnly ==
    /\ \A i \in 1..Len(gens) : gens[i].consumed = gens[i].produced
    /\ Walking => Len(gens) \in {Len(calls), Len(calls) - 1}
    /\ pc = "done" =>
          /\ Len(gens) = Len(calls)
          /\ ret = List([j \in 1..gens[Len(gens)].produced |->
                            ResultOf(Len(calls), j)])
          /\ gens[Len(gens)].kind = "none" => ret = List(<<>>)
          /\ \A i \in 1..(Len(calls) - 1) : \A j \in 1..gens[i].produced :
                ResultOf(i, j) \notin Range(ret.v)

C8_Witness ==
    /\ pc = "done"
    /\ Len(path) >= 1
    /\ gens[1].produced >= 1
    /\ gens[Len(gens)].produced >= 2

\* C9: generate_item_actions receives a flat list of instance names: the
\* names of a non-empty list or tuple given for the target; the declared
\* instances, or [None], when none are given; [i] for a path element with
\* instance i.
C9_FlatInstanceList ==
    \A i \in 1..Len(calls) :
        LET c == calls[i]
            declared == IF ConfigInstances(c.container_name) # <<>>
                        THEN ConfigInstances(c.container_name)
                        ELSE <<NoneV>>
        IN /\ \A k \in 1..Len(c.instances) : c.instances[k].t \in {"str", "none"}
           /\ IF i <= Len(path)
              THEN c.instances = IF path[i][3] # None THEN <<Str(path[i][3])>>
                                 ELSE declared
              ELSE c.instances = IF req.instances.t \in {"list", "tuple"}
                                    /\ req.instances.v # <<>>
                                 THEN req.instances.v
                                 ELSE declared

\* ------------------------------------------------------------------------
\* Properties of prepare_container
\* ------------------------------------------------------------------------
Finished == ppc \in {"done", "raised"}

Removals == SelectSeq(engine, LAMBDA e : e.op = "remove_container")

\* C3 as stated: once create_container returned an id, remove_container is
\* called on it exactly once on every exit path, and an exception of start or
\* wait is the exception that leaves prepare_container.
C3_RemovedOnceOriginalPropagates ==
    /\ Len(Removals) <= 1
    /\ \A i \in 1..Len(Removals) : temp_id # None /\ Removals[i].container = temp_id
    /\ (Finished /\ temp_id # None) =>
          /\ Len(Removals) = 1
          /\ pending # "none" => (ppc = "raised" /\ pexc = pending)

\* C3 amended: remove_container is called exactly once on every exit path
\* after create_container returned; an exception of start or wait leaves
\* prepare_container unless remove_container raises too, and then the
\* exception of remove_container leaves it.
C3_RemovedOnce ==
    /\ Len(Removals) <= 1
    /\ \A i \in 1..Len(Removals) : temp_id # None /\ Removals[i].container = temp_id
    /\ (Finished /\ temp_id # None) =>
          /\ Len(Removals) = 1
          /\ pending # "none" =>
                /\ ppc = "raised"
                /\ pexc = IF Raises("remove_container") THEN "remove_container"
                          ELSE pending
          /\ (pending = "none" /\ ~Raises("remove_container")) => ppc = "done"

C3_Witness ==
    /\ ppc = "raised"
    /\ temp_id # None
    /\ pending = "wait_temp"
    /\ pexc = "wait_temp"
    /\ Len(Removals) = 1

\* ------------------------------------------------------------------------
\* Properties of the parameter builders and of update_kwargs
\* ------------------------------------------------------------------------
\* C6: no builder call changes its inputs: after every call the container
\* configuration (its environment list, create_options and host_config
\* included) and the caller-supplied override dict equal what they were
\* before the first call.
C6_InputsUnchanged == cfg = cfg0 /\ caller = caller0

\* The mapping the i-th call returned, as it reads now: an environment list
\* shared with the configuration reads as the configuration's list.
ResultValue(i) ==
    [k \in DOMAIN results[i].ret |->
        Deref([environment |-> cfg.environment], results[i].ret[k])]

\* C7: two calls in a row of get_create_kwargs, or of get_host_config_kwargs,
\* with the same argument objects return structurally equal mappings.
C7_Idempotent ==
    \A i \in 1..(Len(results) - 1) :
        /\ results[i].builder = results[i + 1].builder
        /\ results[i].builder \in {"get_create_kwargs", "get_host_config_kwargs"}
        => ResultValue(i) = ResultValue(i + 1)

\* The options layer and the caller layer of the i-th call, and what the
\* builder derives when both are absent
OptionsLayer(i) ==
    init_options(IF results[i].builder = "get_create_kwargs"
                 THEN cfg0.create_options ELSE cfg0.host_config)
CallerLayer(i) == IF Truthy(caller0) THEN caller0.v ELSE <<>>
DerivedLayer(i) ==
    LET bare == [cfg0 EXCEPT !.create_options = NoneV, !.host_config = NoneV]
    IN  IF results[i].builder = "get_create_kwargs"
        THEN get_create_kwargs(bare, c_name, NoneV, hostcfg, NoneV).ret
        ELSE get_host_config_kwargs(bare, c_name, NoneV, NoneV).ret
ScalarKeys == {"user", "hostname", "container"}
Layered(i) == results[i].builder \in {"get_create_kwargs", "get_host_config_kwargs"}

\* C14: get_create_kwargs and get_host_config_kwargs layer the derived
\* values, then create_options or host_config, then the caller's overrides:
\* a scalar key present in all three layers has the caller's value in the
\* result, one present only in the options and the derived values has the
\* options' value, and one only derived keeps the derived value.
C14_LayeringOrder ==
    \A i \in 1..Len(results) :
        Layered(i) =>
            \A key \in ScalarKeys \cap DOMAIN DerivedLayer(i) :
                Eq(results[i].ret[key],
                   IF key \in DOMAIN CallerLayer(i) THEN CallerLayer(i)[key]
                   ELSE IF key \in DOMAIN OptionsLayer(i).v
                   THEN resolve_value(OptionsLayer(i).v[key])
                   ELSE DerivedLayer(i)[key])

\* A get_create_kwargs call whose user is derived, set by create_options and
\* overridden by the caller, and whose hostname is derived and set by
\* create_options only
C14_Witness ==
    \E i \in 1..Len(results) :
        /\ results[i].builder = "get_create_kwargs"
        /\ {"user", "hostname"} \subseteq DOMAIN OptionsLayer(i).v
        /\ "user" \in DOMAIN CallerLayer(i)
        /\ "hostname" \notin DOMAIN CallerLayer(i)
        /\ Eq(results[i].ret.user, Str("root"))
        /\ Eq(results[i].ret.hostname, Str("web"))
        /\ ~Eq(DerivedLayer(i).user, Str("root"))

\* C10: for every key other than command and entrypoint, a list or tuple
\* override is appended: over an existing list or tuple the result is the
\* list of the existing elements followed by the override's elements, and
\* for an absent key it is a new list of the override's elements.
C10_ListsAppended ==
    upc = "done" =>
        \A n \in 1..Len(u_updates) :
            Truthy(u_updates[n]) =>
                \A key \in DOMAIN u_updates[n].v \ {"command", "entrypoint"} :
                    LET u_item == resolve_value(u_updates[n].v[key])
                        elems == [i \in 1..Len(u_item.v) |-> resolve_value(u_item.v[i])]
                    IN  u_item.t \in {"list", "tuple"} =>
                            /\ key \in DOMAIN u_kwargs /\ u_kwargs[key].t \in {"list", "tuple"}
                               => u_result[key] = List(u_kwargs[key].v \o elems)
                            /\ key \notin DOMAIN u_kwargs
                               => u_result[key] = List(elems)

\* The single update of the call and the keys it holds
TheUpdate == u_updates[1]
UpdatedKeys == IF Truthy(TheUpdate) THEN DOMAIN TheUpdate.v ELSE {}

\* the resolved override under the key, and its resolved elements
Override(key) == resolve_value(TheUpdate.v[key])
OverrideElements(key) == [i \in 1..Len(Override(key).v) |-> resolve_value(Override(key).v[i])]

\* the key holds a list and is updated with a list or tuple
ListOverList(key) ==
    /\ key \in DOMAIN u_kwargs
    /\ u_kwargs[key].t = "list"
    /\ Override(key).t \in {"list", "tuple"}

\* C11: the keys whose list or tuple override replaces an existing list
\* outright are exactly command and entrypoint: under these two the result is
\* the override alone, under every other key the existing elements followed
\* by the override's.
C11_OverwriteKeysExact ==
    upc = "done" =>
        \A key \in UpdatedKeys :
            ListOverList(key) =>
                IF key \in {"command", "entrypoint"}
                THEN u_result[key].v = Override(key).v
                ELSE u_result[key] = List(u_kwargs[key].v \o OverrideElements(key))

\* C12: an override that is None, or resolves to None, leaves the mapping as
\* it was for its key (an existing value is kept, an absent key stays
\* absent), and an empty or None update changes nothing at all.
C12_NoneIsIgnored ==
    upc = "done" =>
        /\ ~Truthy(TheUpdate) => u_result = u_kwargs
        /\ \A key \in UpdatedKeys :
              Override(key).t = "none" =>
                  /\ key \in DOMAIN u_result <=> key \in DOMAIN u_kwargs
                  /\ key \in DOMAIN u_kwargs => u_result[key] = u_kwargs[key]
                  /\ u_result = u_kwargs

\* a late-resolved None has been applied to a key that holds a value
C12_Witness ==
    /\ upc = "done"
    /\ \E key \in UpdatedKeys :
          /\ TheUpdate.v[key].t = "lazy"
          /\ Override(key).t = "none"
          /\ key \in DOMAIN u_kwargs
          /\ u_result[key] = u_kwargs[key]

\* the key holds a dict and is updated with a dict
DictOverDict(key) ==
    /\ key \in DOMAIN u_kwargs
    /\ u_kwargs[key].t = "dict"
    /\ Override(key).t = "dict"

\* every key of both dicts, the override's resolved value where it has one
ShallowMerge(existing, override) ==
    [k \in DOMAIN existing \cup DOMAIN override |->
        IF k \in DOMAIN override THEN resolve_value(override[k]) ELSE existing[k]]

\* C13: a dict override over an existing dict is merged on one level: the
\* result holds every key of both with the override's value on a collision,
\* a nested dict being replaced as a whole (stated for the keys that are not
\* overwritten outright, command and entrypoint).
C13_DictsShallowMerged ==
    upc = "done" =>
        \A key \in UpdatedKeys \ {"command", "entrypoint"} :
            DictOverDict(key) =>
                u_result[key] = Dict(ShallowMerge(u_kwargs[key].v, Override(key).v))

\* The get_port_bindings call has returned or raised; its outcome, and the
\* resolved fields of the i-th exposed port
PortsDone == Len(results) = 1 /\ results[1].builder = "get_port_bindings"
PortsOutcome == results[1].ret
ExposedPort(i) == resolve_value(cfg0.exposes[i].exposed_port).v
HostPort(i) == resolve_value(cfg0.exposes[i].host_port)
Interface(i) == resolve_value(cfg0.exposes[i].interface)
Address(i) == resolve_value(Get(client_config.interfaces.v, Interface(i).v))
Unresolvable(i) == Truthy(Interface(i)) /\ ~Truthy(Address(i))

\* C15: get_port_bindings raises the configuration error whenever some
\* exposed port names an interface without an address in the client's
\* interface table, with or without a host port on that port.
C15_UnresolvableInterfaceFails ==
    PortsDone =>
        ((\E i \in 1..Len(cfg0.exposes) : Unresolvable(i)) => PortsOutcome.exc = "ValueError")

\* C16: when get_port_bindings returns, a port with a host port and no
\* interface is mapped to the bare host port, one with a host port and a
\* resolvable interface to the pair (address, host port), one without a host
\* port has no entry, and the result has no other keys.
C16_BindingsByCase ==
    PortsDone /\ PortsOutcome.exc = "none" =>
        /\ \A i \in 1..Len(cfg0.exposes) :
              IF ~Truthy(HostPort(i)) THEN ExposedPort(i) \notin DOMAIN PortsOutcome.port_bindings
              ELSE /\ ExposedPort(i) \in DOMAIN PortsOutcome.port_bindings
                   /\ Eq(PortsOutcome.port_bindings[ExposedPort(i)],
                         IF Truthy(Interface(i)) THEN Tuple(<<Address(i), HostPort(i)>>)
                         ELSE HostPort(i))
        /\ DOMAIN PortsOutcome.port_bindings
              = {ExposedPort(i) : i \in {j \in 1..Len(cfg0.exposes) : Truthy(HostPort(j))}}

\* A returned mapping over three ports, one of each case
C16_Witness ==
    /\ PortsDone
    /\ PortsOutcome.exc = "none"
    /\ Len(cfg0.exposes) = 3
    /\ Truthy(HostPort(1)) /\ ~Truthy(Interface(1))
    /\ Truthy(HostPort(2)) /\ Truthy(Interface(2)) /\ Truthy(Address(2))
    /\ ~Truthy(HostPort(3))
    /\ DOMAIN PortsOutcome.port_bindings = {80, 443}
    /\ Eq(PortsOutcome.port_bindings[443], Tuple(<<Str("10.0.0.1"), HostPort(2)>>))

\* The single builder call of the run has returned; its builder and result
Called(builder) == Len(results) = 1 /\ results[1].builder = builder
TheResult == results[1].ret

\* '<map>.<name>' or '<map>.<name>:ro' of a used volume, and the name of an
\* attached volume under the map's naming scheme
UsedName(u) ==
    Str(container_map.name \o "." \o u.volume \o (IF u.readonly THEN ":ro" ELSE ""))
AttachedName(a) ==
    Str(IF container_map.use_attached_parent_name
        THEN container_map.name \o "." \o config_name \o "." \o a
        ELSE container_map.name \o "." \o a)

\* C17: volumes_from of get_host_config_kwargs is the uses entries in
\* declared order, ':ro' appended exactly to the read-only ones, followed by
\* the attaches entries in declared order, named with the parent
\* configuration exactly when the map has use_attached_parent_name set.
C17_VolumesFrom ==
    Called("get_host_config_kwargs") /\ ~Truthy(caller0) /\ ~Truthy(cfg0.host_config) =>
        TheResult.volumes_from
            = List([i \in 1..Len(cfg0.uses) |-> UsedName(cfg0.uses[i])]
                   \o [i \in 1..Len(cfg0.attaches) |-> AttachedName(cfg0.attaches[i])])

\* Two used volumes, the first read-only, and two attached ones named with
\* the parent configuration
C17_Witness ==
    /\ Called("get_host_config_kwargs")
    /\ container_map.use_attached_parent_name
    /\ Len(cfg0.uses) = 2 /\ cfg0.uses[1].readonly /\ ~cfg0.uses[2].readonly
    /\ cfg0.uses[1].volume # cfg0.uses[2].volume
    /\ TheResult.volumes_from
          = List(<<Str("main.app_server_socket:ro"), Str("main.app_log"),
                   Str("main.web_server.web_log"), Str("main.web_server.web_tmp")>>)

\* C18: before caller overrides, get_stop_kwargs and get_restart_kwargs give
\* the configuration's stop_timeout when it is explicitly set, whatever the
\* client says; otherwise the client's stop_timeout when that is not None;
\* otherwise no timeout key.  The container key is the given container name.
C18_TimeoutResolution ==
    (Called("get_stop_kwargs") \/ Called("get_restart_kwargs")) /\ ~Truthy(caller0) =>
        /\ Eq(TheResult.container, c_name)
        /\ IF cfg0.stop_timeout.t # "notset"
           THEN "timeout" \in DOMAIN TheResult /\ Eq(TheResult.timeout, cfg0.stop_timeout)
           ELSE IF "stop_timeout" \in DOMAIN client_config /\ client_config.stop_timeout.t # "none"
           THEN "timeout" \in DOMAIN TheResult /\ Eq(TheResult.timeout, client_config.stop_timeout)
           ELSE DOMAIN TheResult = {"container"}

\* A stop call on a configuration whose stop_timeout is explicitly 0, with a
\* client that has one of 5
C18_Witness ==
    /\ Called("get_stop_kwargs")
    /\ Eq(cfg0.stop_timeout, Num(0))
    /\ Eq(Get(client_config, "stop_timeout"), Num(5))
    /\ Eq(TheResult.timeout, Num(0))

\* The request get_attached_create_kwargs derives from map and
\* configuration: network disabled, the base image, the alias's path as the
\* only volume, the extracted user, and neither ports nor environment
IsAttachedRequest(request) ==
    /\ {"network_disabled", "image", "volumes", "user"} \subseteq DOMAIN request
    /\ Eq(request.network_disabled, Bool(TRUE))
    /\ Eq(request.image, Str(base_image))
    /\ Eq(request.volumes, List(<<container_map.volumes[alias]>>))
    /\ Eq(request.user, extract_user(cfg0.user))
    /\ "ports" \notin DOMAIN request
    /\ "environment" \notin DOMAIN request

\* the keys the caller's override dict holds
CallerKeys == IF Truthy(caller0) THEN DOMAIN caller0.v ELSE {}
AttachedKeys == {"network_disabled", "image", "volumes", "user", "ports", "environment"}

\* C19 as stated: whatever the caller's overrides, the request of
\* get_attached_create_kwargs is the derived one.
C19_AttachedCreateFixed ==
    Called("get_attached_create_kwargs") => IsAttachedRequest(TheResult)

\* C19, amended: the request of get_attached_create_kwargs is the derived
\* one whenever the caller's overrides hold none of network_disabled, image,
\* volumes, user, ports and environment; overrides under those keys are
\* merged in by update_kwargs like any other.
C19_AttachedCreateUnlessOverridden ==
    Called("get_attached_create_kwargs") /\ CallerKeys \cap AttachedKeys = {} =>
        IsAttachedRequest(TheResult)

\* A call with an override under another key, on a configuration whose user
\* names a group too
C19_Witness ==
    /\ Called("get_attached_create_kwargs")
    /\ CallerKeys = {"labels"}
    /\ Eq(cfg0.user, Str("2000:3000"))
    /\ Eq(TheResult.user, Str("2000"))
    /\ "labels" \in DOMAIN TheResult

\* A user is set when extract_user finds one; permissions are set unless
\* they are NotSet.  The commands the claim expects, in order.
UserIsSet == extract_user(cfg0.user).t # "none"
PermissionsAreSet == cfg0.permissions.t # "notset"
VolumePath == container_map.volumes[alias].v
ExpectedCommands ==
    (IF UserIsSet
     THEN <<"chown -R " \o get_user_group(resolve_value(cfg0.user)) \o " " \o VolumePath>>
     ELSE <<>>)
    \o (IF PermissionsAreSet
        THEN <<"chmod -R " \o cfg0.permissions.v \o " " \o VolumePath>> ELSE <<>>)

\* C20: the command of get_attached_preparation_create_kwargs is the chown
\* command exactly when a user is set and the chmod command exactly when
\* permissions are set, joined by ' && ' in that order; there is no command
\* in the request when neither is set; user is 'root' and the image is the
\* core image.
C20_PreparationCommand ==
    /\ Called("get_attached_preparation_create_kwargs")
    /\ CallerKeys \cap {"command", "user", "image"} = {}
    => /\ Eq(TheResult.user, Str("root"))
       /\ Eq(TheResult.image, Str(core_image))
       /\ IF ExpectedCommands = <<>> THEN "command" \notin DOMAIN TheResult
          ELSE /\ "command" \in DOMAIN TheResult
               /\ Eq(TheResult.command, Str(Join(" && ", ExpectedCommands)))

\* ------------------------------------------------------------------------
\* Order of the engine calls of prepare_container
\* ------------------------------------------------------------------------
\* positions of the engine calls of an operation, and of the waits on the
\* volume container and on the temporary container
CallsOf(op) == {i \in 1..Len(engine) : engine[i].op = op}
VolumeWaits == {i \in CallsOf("wait") : engine[i].container = volume_container}
TempWaits == CallsOf("wait") \ VolumeWaits
Precedes(S, i) == \E j \in S : j < i

\* C27: the wait on the volume container has returned before
\* create_container is called, create_container precedes start, start
\* precedes the wait on the temporary container, and remove_container is the
\* last engine call; when the first wait or create_container raises, neither
\* start nor remove_container is called.
C27_EngineCallOrder ==
    /\ \A i \in CallsOf("create_container") :
          Precedes(VolumeWaits, i) /\ ~Raises("wait_volume")
    /\ \A i \in CallsOf("start") : Precedes(CallsOf("create_container"), i)
    /\ \A i \in TempWaits : Precedes(CallsOf("start"), i)
    /\ \A i \in CallsOf("remove_container") : i = Len(engine)
    /\ (Finished /\ CallsOf("start") # {}) => CallsOf("remove_container") # {}
    /\ (Finished /\ (pexc \in {"wait_volume", "create_container"}))
          => CallsOf("start") = {} /\ CallsOf("remove_container") = {}

\* A run in which all five engine calls were made and none raised
C27_Witness ==
    /\ ppc = "done"
    /\ Len(engine) = 5
    /\ engine[1].op = "wait" /\ engine[1].container = volume_container
    /\ engine[2].op = "create_container"
    /\ engine[3].op = "start"
    /\ engine[4].op = "wait" /\ engine[4].container = temp_id
    /\ engine[5].op = "remove_container"

\* ------------------------------------------------------------------------
\* The map name handed to generate_item_actions
\* ------------------------------------------------------------------------
\* C28: every invocation of generate_item_actions receives as map_name the
\* name of the map its c_map is registered under, also for path elements of
\* a map other than the one named in the get_actions call.
C28_MapNameOfItem ==
    \A i \in 1..Len(calls) : calls[i].map_name = calls[i].c_map

\* ------------------------------------------------------------------------
\* The two attached-volume builders on the same configuration
\* ------------------------------------------------------------------------
\* the command of the preparation request starts with a chown of the volume
\* path
HasChown(request) ==
    /\ "command" \in DOMAIN request
    /\ request.command.t = "str"
    /\ Len(request.command.v) >= 9
    /\ SubSeq(request.command.v, 1, 9) = "chown -R "

\* the user get_attached_create_kwargs passes for the same configuration
CreateUser == get_attached_create_kwargs(cfg0, c_name, hostcfg, NoneV).ret.user

\* C30: for every user value, the request of
\* get_attached_preparation_create_kwargs has a chown of the volume path
\* exactly when get_attached_create_kwargs passes a user other than None; a
\* literal user 0 is passed as '0' and is chowned.
C30_BuildersAgreeOnUser ==
    /\ Called("get_attached_preparation_create_kwargs")
    /\ "command" \notin CallerKeys
    => (HasChown(TheResult) <=> CreateUser.t # "none")

\* ------------------------------------------------------------------------
\* Names of attached containers across configurations
\* ------------------------------------------------------------------------
\* a volumes_from entry without its ':ro' suffix
WithoutRo(s) ==
    IF Len(s) >= 3 /\ SubSeq(s, Len(s) - 2, Len(s)) = ":ro" THEN SubSeq(s, 1, Len(s) - 3) ELSE s

\* The volumes_from entry get_host_config_kwargs generates for another
\* configuration of the map that uses the alias, read-only or not
UsingConfig(a, readonly) ==
    [PlainConfig EXCEPT !.uses = <<[volume |-> a, readonly |-> readonly]>>, !.attaches = <<>>]
UsedEntry(a, readonly) ==
    get_host_config_kwargs(UsingConfig(a, readonly), c_name, NoneV, NoneV).ret.volumes_from.v[1].v

\* the entry generated for the i-th attached volume of the configuration
\* called
AttachedEntry(i) == TheResult.volumes_from.v[Len(cfg0.uses) + i].v

\* C29: for a map with or without use_attached_parent_name, the
\* volumes_from entry of a configuration that uses an alias is, up to ':ro',
\* the name generated for the attached container of the configuration that
\* attaches the alias.
C29_AttachedNamesAgree ==
    Called("get_host_config_kwargs") /\ ~Truthy(caller0) =>
        \A i \in 1..Len(cfg0.attaches), readonly \in BOOLEAN :
            WithoutRo(UsedEntry(cfg0.attaches[i], readonly)) = AttachedEntry(i)

\* ------------------------------------------------------------------------
\* Embedding of the host configuration in get_create_kwargs
\* ------------------------------------------------------------------------
FirstIs(builder) == Len(results) >= 1 /\ results[1].builder = builder
WithoutHostConfig(request) == [k \in DOMAIN request \ {"host_config"} |-> request[k]]

\* the caller's 'host_config' override, and what get_host_config_kwargs
\* returns for the same inputs, no container name, and that override
CallerHostConfig == IF Truthy(caller0) THEN Get(caller0.v, "host_config") ELSE NoneV
HostConfigOutput == get_host_config_kwargs(cfg0, NoneV, NoneV, CallerHostConfig).ret

\* C26: with include_host_config the result of get_create_kwargs has a
\* 'host_config' entry built from the output of get_host_config_kwargs for
\* the same inputs, called without a container name and with the caller's
\* 'host_config' override; without it the result has no 'host_config' key,
\* whatever the caller's overrides; the other keys are the same in both modes.
C26_HostConfigEmbedded ==
    FirstIs("get_create_kwargs") =>
        /\ IF hostcfg
           THEN /\ "host_config" \in DOMAIN results[1].ret
                /\ results[1].ret.host_config = create_host_config(HostConfigOutput)
           ELSE "host_config" \notin DOMAIN results[1].ret
        /\ WithoutHostConfig(results[1].ret)
              = WithoutHostConfig(get_create_kwargs(cfg0, c_name, NoneV, ~hostcfg, caller0).ret)

\* A call embedding a host configuration that holds the bind the caller
\* overrides it with
C26_Witness ==
    /\ FirstIs("get_create_kwargs")
    /\ hostcfg
    /\ CallerHostConfig.t = "dict"
    /\ "ports" \in DOMAIN caller0.v
    /\ "/new_h" \in DOMAIN results[1].ret.host_config.v.binds.v
    /\ "/var/lib/site/config/nginx" \in DOMAIN results[1].ret.host_config.v.binds.v

\* ------------------------------------------------------------------------
\* Client selection
\* ------------------------------------------------------------------------
\* the client list that counts: the configuration's, else the map's, else
\* the default client
ExpectedClients ==
    IF cfg0.clients # <<>> THEN cfg0.clients
    ELSE IF container_map.clients # <<>> THEN container_map.clients
    ELSE <<"__default__">>

\* C21: get_clients returns one (name, handle, config) triple per name of
\* the configuration's client list if that is non-empty, else of the map's
\* if that is non-empty, else for '__default__' alone, in list order; a name
\* that is not registered raises a lookup error.
C21_ClientSelection ==
    Called("get_clients") =>
        IF \A i \in 1..Len(ExpectedClients) : ExpectedClients[i] \in DOMAIN clients
        THEN /\ TheResult.exc = "none"
             /\ Len(TheResult.ret) = Len(ExpectedClients)
             /\ \A i \in 1..Len(ExpectedClients) :
                   /\ TheResult.ret[i].name = ExpectedClients[i]
                   /\ TheResult.ret[i].config = ExpectedClients[i]
                   /\ TheResult.ret[i].client # None
                   /\ TheResult.ret[i].client = clients[ExpectedClients[i]].client
        ELSE TheResult.exc = "KeyError"

\* A call on a configuration with its own two clients, on a map that names
\* another list
C21_Witness ==
    /\ Called("get_clients")
    /\ cfg0.clients = <<"c2", "c1">>
    /\ container_map.clients = <<"c1">>
    /\ TheResult.exc = "none"
    /\ Len(TheResult.ret) = 2
    /\ TheResult.ret[1].name = "c2"
    /\ TheResult.ret[2].name = "c1"

\* ------------------------------------------------------------------------
\* First-seen precedence of merge
\* ------------------------------------------------------------------------
RECURSIVE FirstSeen(_, _)
\* the entries of the update, in order, whose first element is neither in
\* seen nor in an earlier entry of the update
FirstSeen(seen, update) ==
    IF update = <<>> THEN <<>>
    ELSE IF Head(update)[1] \in seen THEN FirstSeen(seen, Tail(update))
    ELSE <<Head(update)>> \o FirstSeen(seen \cup {Head(update)[1]}, Tail(update))

\* C22: a merge keeps the existing entries at their positions and appends,
\* in update order, exactly the update entries with a first element that no
\* earlier entry has; after any sequence of merges no two entries of the
\* list share a first element.
C22_FirstSeenPrecedence ==
    m_count > 0 =>
        /\ m_current = m_prev \o FirstSeen({m_prev[i][1] : i \in 1..Len(m_prev)}, m_update)
        /\ \A i, j \in 1..Len(m_current) : m_current[i][1] = m_current[j][1] => i = j

\* ------------------------------------------------------------------------
\* Creation of the client handle on first use
\* ------------------------------------------------------------------------
\* the handles get_client has returned so far, to any thread
Returned == UNION {Range(g_ret[t]) : t \in Threads}

\* C25: over any sequence of get_client calls, interleaved first calls
\* included, the constructor is invoked at most once and every call returns
\* the same handle; with a client given at construction it is never invoked.
C25_CreatedOnce ==
    /\ g_constructed <= 1
    /\ Cardinality(Returned) <= 1
    /\ g_client = constructed_client(0) => g_constructed = 0

\* ------------------------------------------------------------------------
\* Binds that cannot be resolved
\* ------------------------------------------------------------------------
\* the volume of the i-th bind, whether it is a path tuple of other than two
\* elements, and whether it is an alias the map cannot resolve
BindVolume(i) == cfg0.binds[i].volume
Malformed(i) == BindVolume(i).t = "tuple" /\ Len(BindVolume(i).v) # 2
Unresolved(i) ==
    /\ BindVolume(i).t = "str"
    /\ \/ BindVolume(i).v \notin DOMAIN container_map.volumes
       \/ BindVolume(i).v \notin DOMAIN container_map.host.paths

\* C23: a first bind whose volume is a path tuple of other than two elements
\* makes get_host_binds and get_volumes fail with a ValueError; it is neither
\* reported as a lookup error nor skipped.
C23_MalformedBindIsValueError ==
    (Called("get_host_binds") \/ Called("get_volumes")) /\ Malformed(1) =>
        TheResult.exc = "ValueError"

\* C24: a first bind naming an alias that the map's volumes table or its
\* host table lacks makes get_host_binds fail with a KeyError; the mapping it
\* returns has no entry under an undefined host path.
C24_UnresolvedAliasIsKeyError ==
    Called("get_host_binds") =>
        /\ Unresolved(1) => TheResult.exc = "KeyError"
        /\ TheResult.exc = "none" => None \notin DOMAIN TheResult.host_binds

====
